---------------------------- MODULE Spec2Model ----------------------------
(***************************************************************************)
(* A model of go-simconnect's client package: the Client (ABI bridge), the *)
(* FlightDataManager with its data collection goroutine and the            *)
(* SystemEventManager with its event loop goroutines, all sharing the one  *)
(* native dispatch queue of the connection.                                *)
(***************************************************************************)
EXTENDS Integers, Sequences, FiniteSets, TLC

(***************************************************************************)
(* Bounds of the model.                                                    *)
(***************************************************************************)
MaxVars == 2
MaxDeliver == 2
MaxStarts == 2
MaxTime == 1
MaxVal == 2
MaxSubs == 2

(***************************************************************************)
(* Program constants.                                                      *)
(***************************************************************************)
\* HRESULT values, written as the source writes them (they exceed TLC's integers).
S_OK == "0x00000000"
E_FAIL == "0x80004005"
E_INVALIDARG == "0x80070057"
STATUS_REMOTE_DISCONNECT == "0xC000013C"
SIMCONNECT_RECV_ID_QUIT == 3
SIMCONNECT_RECV_ID_EVENT == 4
SIMCONNECT_RECV_ID_EVENT_OBJECT_ADDREMOVE == 5
SIMCONNECT_RECV_ID_EVENT_FILENAME == 6
SIMCONNECT_RECV_ID_EVENT_FRAME == 7
SIMCONNECT_RECV_ID_SIMOBJECT_DATA == 8
SizeofRecv == 12
SizeofRecvSimObjectData == 40
SizeofRecvEvent == 20
SizeofFloat64 == 8
ErrorChanCap == 10
FirstEventID == 1000
SIMCONNECT_DATA_SET_FLAG_DEFAULT == 0
SIMCONNECT_PERIOD_SECOND == 4
SIMCONNECT_DATA_REQUEST_FLAG_CHANGED == 1
SIMCONNECT_DATA_SET_FLAG_TAGGED == 1

VARIABLES
    isOpen,         \* Client.isOpen
    handle,         \* Client.handle (0 when there is none)
    queue,          \* the host's dispatch queue of the connection (native side)
    delivered,      \* number of messages the host has queued so far
    now,            \* the clock time.Now() reads
    variables,      \* FlightDataManager.variables
    definitions,    \* FlightDataManager.definitions
    requests,       \* FlightDataManager.requests
    fdmMutex,       \* FlightDataManager.mutex: "free", or who holds the write lock
    fdmRunning,     \* FlightDataManager.running
    fdmStopPc,      \* a Stop() call in progress: "idle", or "send" (blocked on stopChan)
    fdmErrorChan,   \* FlightDataManager.errorChan (buffered, capacity 10)
    dataCount,      \* FlightDataManager.dataCount
    errorCount,     \* FlightDataManager.errorCount
    lastUpdate,     \* FlightDataManager.lastUpdate
    wpc,            \* the dataCollectionLoop goroutine's position
    wmsg,           \* the message that goroutine holds in collectData
    fdmSpawned,     \* number of dataCollectionLoop goroutines started
    armed,          \* host side: the requests armed by RequestDataOnSimObject
    callbacks,      \* SystemEventManager.callbacks (event ID -> callback)
    eventNames,     \* SystemEventManager.eventNames (event ID -> name)
    semRunning,     \* SystemEventManager.running
    semStopChan,    \* SystemEventManager.stopChan (the channel's identity)
    semClosed,      \* the stop channels closed so far
    semErrorChan,   \* SystemEventManager.errorChan (buffered, capacity 10)
    semAttempt,     \* history: the latest send tried on semErrorChan, n flips at each
    nextID,         \* SystemEventManager.nextID
    issued,         \* history: the event IDs successful SubscribeToEvent calls returned, in call order
    semLoops,       \* the eventLoop goroutines started, each with its position
    cbSpawned,      \* callback goroutines spawned and not yet scheduled
    cbRunning,      \* callback goroutines inside cb(event)
    cbLog,          \* the callbacks begun, in the order they began
    cbEnded,        \* history: the callbacks over, each with how it ended
    scPending,      \* SubscribeToCommonEvents in progress: names still to subscribe
    scBefore,       \* history: eventNames when that call began
    uaPending,      \* UnsubscribeAll in progress: the eventIDs still to unsubscribe
    applied,        \* history: the data-samples applied to a variable, in order
    lost,           \* history: messages pulled by the manager that ignores their kind
    rawData,        \* the bytes the latest GetRawDispatch call of the application returned
    writable,       \* the indices of the variables registered as writable
    written,        \* host side: the SetDataOnSimObject calls received, in order
    inNative,       \* the native call a manager method is blocked in, if any
    ret             \* the result of the latest API call

vars == <<isOpen, handle, issued, rawData, writable, written, inNative, queue, delivered, now, variables, definitions, requests,
          fdmMutex, fdmRunning, fdmStopPc, fdmErrorChan, dataCount, errorCount,
          lastUpdate, wpc, wmsg, fdmSpawned, armed, callbacks, eventNames,
          semRunning, semStopChan, semClosed, semErrorChan, nextID, semLoops,
          semAttempt, cbSpawned, cbRunning, cbLog, cbEnded, scPending, scBefore,
          uaPending,
          applied, lost, ret>>

clientVars == <<isOpen, handle>>
apiVars == <<rawData, writable, written, inNative>>
hostVars == <<queue, delivered>>
fdmData == <<variables, definitions, requests>>
fdmStats == <<dataCount, errorCount, lastUpdate, fdmErrorChan>>
fdmLife == <<fdmMutex, fdmRunning, fdmStopPc, fdmSpawned, armed>>
fdmWorker == <<wpc, wmsg>>
semSubs == <<callbacks, eventNames, nextID, issued>>
semLife == <<semRunning, semStopChan, semClosed, semLoops>>
semWork == <<semErrorChan, semAttempt, cbSpawned, cbRunning, cbLog, cbEnded>>
semCalls == <<scPending, scBefore, uaPending>>
history == <<applied, lost>>

Names == {"Altitude", "Airspeed"}
EventNameSet == {"Pause", "Sim"}
Vals == 1..MaxVal
NoCall == [fn |-> "", lock |-> "", arg |-> ""]
NoMsg == [seq |-> 0, size |-> 0, dwSize |-> 0, dwID |-> 0, id |-> 0, val |-> 0]

IsHRESULTSuccess(hresult) == hresult = S_OK

Ok(op) == [op |-> op, err |-> "", hresult |-> S_OK]
StateError(op, e) == [op |-> op, err |-> e, hresult |-> S_OK]
NewSimConnectError(op, hresult) == [op |-> op, err |-> "SimConnectError", hresult |-> hresult]
Wrapped(op, r) == [r EXCEPT !.op = op, !.err = "wrapped: " \o r.err]

(***************************************************************************)
(* Client: every outbound operation first checks isOpen, then makes the    *)
(* native call, whose status hr the host decides.                          *)
(***************************************************************************)
\* An outbound operation without its check of isOpen.
NativeCall_NoCheck(fn, hr) ==
    IF ~IsHRESULTSuccess(hr) THEN NewSimConnectError(fn, hr) ELSE Ok(fn)

NativeCall(fn, hr) ==
    IF ~isOpen THEN StateError(fn, "client is not open")
    ELSE IF ~IsHRESULTSuccess(hr) THEN NewSimConnectError(fn, hr)
    ELSE Ok(fn)

AddToDataDefinition(hr) == NativeCall("SimConnect_AddToDataDefinition", hr)
RequestDataOnSimObjectWithFlags(hr) == NativeCall("SimConnect_RequestDataOnSimObject", hr)
SubscribeToSystemEvent(hr) == NativeCall("SimConnect_SubscribeToSystemEvent", hr)
UnsubscribeFromSystemEvent(hr) == NativeCall("SimConnect_UnsubscribeFromSystemEvent", hr)
SetSystemEventState(hr) == NativeCall("SimConnect_SetSystemEventState", hr)
RequestSystemState(hr) == NativeCall("SimConnect_RequestSystemState", hr)

(* SetDataOnSimObject: what the call returns and what the host has        *)
(* received afterwards; the call passes ArrayCount 1 and cbUnitSize        *)
(* len(data), and reaches the host only on an open client.                 *)
SetDataOnSimObject(defineID, flags, size, hr) ==
    [ret |-> NativeCall("SimConnect_SetDataOnSimObject", hr),
     written |-> IF isOpen
                   THEN Append(written, [defineID |-> defineID, flags |-> flags,
                                         arrayCount |-> 1, cbUnitSize |-> size])
                   ELSE written]

\* SetFloat64OnSimObject sending the four bytes of a float32.
SetFloat64OnSimObject_AsFloat32(defineID, hr) ==
    SetDataOnSimObject(defineID, SIMCONNECT_DATA_SET_FLAG_DEFAULT, 4, hr)

(* data := make([]byte, 8), sent in non-tagged mode *)
SetFloat64OnSimObject(defineID, hr) ==
    SetDataOnSimObject(defineID, SIMCONNECT_DATA_SET_FLAG_DEFAULT, SizeofFloat64, hr)

\* The handles SimConnect_Open writes through &c.handle on success: not 0.
Handles == {1}

Open(hr) ==
    /\ IF isOpen
         THEN /\ ret' = StateError("Open", "client is already open")
              /\ UNCHANGED <<isOpen, handle>>
         ELSE IF ~IsHRESULTSuccess(hr)
         THEN /\ ret' = NewSimConnectError("Open", hr)
              /\ UNCHANGED <<isOpen, handle>>
         ELSE /\ isOpen' = TRUE
              /\ \E h \in Handles : handle' = h
              /\ ret' = Ok("Open")
    /\ UNCHANGED <<apiVars, hostVars, now, fdmData, fdmStats, fdmLife, fdmWorker,
                   semSubs, semLife, semWork, semCalls, history>>

\* Close without its check of isOpen.
Close_NoCheck(hr) ==
    /\ IF ~IsHRESULTSuccess(hr)
         THEN /\ ret' = NewSimConnectError("Close", hr)
              /\ UNCHANGED <<isOpen, handle>>
         ELSE /\ isOpen' = FALSE
              /\ handle' = 0
              /\ ret' = Ok("Close")
    /\ UNCHANGED <<apiVars, hostVars, now, fdmData, fdmStats, fdmLife, fdmWorker,
                   semSubs, semLife, semWork, semCalls, history>>

\* Close that gives up the connection also when the host refused to close it.
Close_FailureCloses(hr) ==
    /\ IF ~isOpen
         THEN /\ ret' = StateError("Close", "client is not open")
              /\ UNCHANGED <<isOpen, handle>>
         ELSE /\ isOpen' = FALSE
              /\ handle' = 0
              /\ ret' = IF IsHRESULTSuccess(hr) THEN Ok("Close")
                                                ELSE NewSimConnectError("Close", hr)
    /\ UNCHANGED <<apiVars, hostVars, now, fdmData, fdmStats, fdmLife, fdmWorker,
                   semSubs, semLife, semWork, semCalls, history>>

Close(hr) ==
    /\ IF ~isOpen
         THEN /\ ret' = StateError("Close", "client is not open")
              /\ UNCHANGED <<isOpen, handle>>
         ELSE IF ~IsHRESULTSuccess(hr)
         THEN /\ ret' = NewSimConnectError("Close", hr)
              /\ UNCHANGED <<isOpen, handle>>
         ELSE /\ isOpen' = FALSE
              /\ handle' = 0
              /\ ret' = Ok("Close")
    /\ UNCHANGED <<apiVars, hostVars, now, fdmData, fdmStats, fdmLife, fdmWorker,
                   semSubs, semLife, semWork, semCalls, history>>

(***************************************************************************)
(* GetRawDispatch: the outcome of one pull, as [data, err, rest], where    *)
(* data = NoMsg stands for the nil slice. The host answers success with a  *)
(* null pointer when its queue is empty; a message of size 0 is taken off  *)
(* the queue like any other.                                               *)
(***************************************************************************)
\* GetRawDispatch that reports the queue-empty status as an error.
GetRawDispatch_EFailIsError(hr) ==
    IF ~isOpen
      THEN [data |-> NoMsg, err |-> "client is not open", rest |-> queue]
    ELSE IF ~IsHRESULTSuccess(hr)
      THEN [data |-> NoMsg, err |-> "SimConnectError", rest |-> queue]
    ELSE IF queue = << >>
      THEN [data |-> NoMsg, err |-> "", rest |-> queue]
    ELSE IF Head(queue).size = 0
      THEN [data |-> NoMsg, err |-> "", rest |-> Tail(queue)]
    ELSE [data |-> Head(queue), err |-> "", rest |-> Tail(queue)]

GetRawDispatch(hr) ==
    IF ~isOpen
      THEN [data |-> NoMsg, err |-> "client is not open", rest |-> queue]
    ELSE IF hr = E_FAIL
      THEN [data |-> NoMsg, err |-> "", rest |-> queue]
    ELSE IF ~IsHRESULTSuccess(hr)
      THEN [data |-> NoMsg, err |-> "SimConnectError", rest |-> queue]
    ELSE IF queue = << >>
      THEN [data |-> NoMsg, err |-> "", rest |-> queue]
    ELSE IF Head(queue).size = 0
      THEN [data |-> NoMsg, err |-> "", rest |-> Tail(queue)]
    ELSE [data |-> Head(queue), err |-> "", rest |-> Tail(queue)]

(***************************************************************************)
(* The application calling the Client directly.                            *)
(***************************************************************************)
OutboundOps ==
    {"AddToDataDefinition", "RequestDataOnSimObjectWithFlags", "SubscribeToSystemEvent",
     "UnsubscribeFromSystemEvent", "SetSystemEventState", "RequestSystemState"}

OutboundCall(op, hr) ==
    CASE op = "AddToDataDefinition" -> AddToDataDefinition(hr)
      [] op = "RequestDataOnSimObjectWithFlags" -> RequestDataOnSimObjectWithFlags(hr)
      [] op = "SubscribeToSystemEvent" -> SubscribeToSystemEvent(hr)
      [] op = "UnsubscribeFromSystemEvent" -> UnsubscribeFromSystemEvent(hr)
      [] op = "SetSystemEventState" -> SetSystemEventState(hr)
      [] op = "RequestSystemState" -> RequestSystemState(hr)

ClientCall(op, hr) ==
    /\ ret' = OutboundCall(op, hr)
    /\ UNCHANGED <<clientVars, apiVars, semCalls, hostVars, now, fdmData, fdmStats, fdmLife,
                   fdmWorker, semSubs, semLife, semWork, history>>

ClientSetFloat64(defineID, hr) ==
    /\ LET o == SetFloat64OnSimObject(defineID, hr)
       IN /\ ret' = o.ret
          /\ written' = o.written
    /\ UNCHANGED <<clientVars, rawData, writable, inNative, semCalls, hostVars, now, fdmData,
                   fdmStats, fdmLife, fdmWorker, semSubs, semLife, semWork, history>>

ClientGetRawDispatch(hr) ==
    /\ LET g == GetRawDispatch(hr)
       IN /\ rawData' = g.data
          /\ queue' = g.rest
          /\ ret' = IF g.err = "SimConnectError"
                      THEN NewSimConnectError("SimConnect_GetNextDispatch", hr)
                    ELSE IF g.err # ""
                      THEN StateError("SimConnect_GetNextDispatch", g.err)
                    ELSE Ok("SimConnect_GetNextDispatch")
    /\ UNCHANGED <<clientVars, writable, written, inNative, semCalls, delivered, now, fdmData,
                   fdmStats, fdmLife, fdmWorker, semSubs, semLife, semWork, history>>

(***************************************************************************)
(* Message codec.                                                          *)
(***************************************************************************)
ParseMessageType(data) ==
    IF data.size < SizeofRecv THEN [id |-> 0, err |-> "data too short for SIMCONNECT_RECV"]
    ELSE [id |-> data.dwID, err |-> ""]

\* ParseSimObjectData returning the whole message as the payload.
ParseSimObjectData_WholeLength(data) ==
    IF data.size < SizeofRecvSimObjectData
      THEN [requestID |-> 0, len |-> 0, err |-> "data too short for SIMCONNECT_RECV_SIMOBJECT_DATA"]
    ELSE [requestID |-> data.id, len |-> data.size, err |-> ""]

ParseSimObjectData(data) ==
    IF data.size < SizeofRecvSimObjectData
      THEN [requestID |-> 0, len |-> 0, err |-> "data too short for SIMCONNECT_RECV_SIMOBJECT_DATA"]
    ELSE [requestID |-> data.id, len |-> data.size - SizeofRecvSimObjectData, err |-> ""]

ParseEvent(data) ==
    IF data.size < SizeofRecvEvent THEN [eventID |-> 0, err |-> "data too short for SIMCONNECT_RECV_EVENT"]
    ELSE [eventID |-> data.id, err |-> ""]

IsEventKind(msgType) ==
    msgType \in {SIMCONNECT_RECV_ID_EVENT, SIMCONNECT_RECV_ID_EVENT_FILENAME,
                 SIMCONNECT_RECV_ID_EVENT_OBJECT_ADDREMOVE, SIMCONNECT_RECV_ID_EVENT_FRAME}

(***************************************************************************)
(* The host queues a message for the open connection.                      *)
(***************************************************************************)
DataSample(requestID, v) ==
    [size |-> SizeofRecvSimObjectData + SizeofFloat64,
     dwID |-> SIMCONNECT_RECV_ID_SIMOBJECT_DATA, id |-> requestID, val |-> v]
BasicEvent(eventID, v) ==
    [size |-> SizeofRecvEvent, dwID |-> SIMCONNECT_RECV_ID_EVENT, id |-> eventID, val |-> v]

(* A message is a buffer of size bytes whose header declares dwSize bytes   *)
(* (SIMCONNECT_RECV.DwSize); the host declares the size of the buffer      *)
(* unless the message says otherwise.                                      *)
DeclaredSize(m) == IF "dwSize" \in DOMAIN m THEN m.dwSize ELSE m.size

HostDeliver(m) ==
    /\ isOpen
    /\ delivered < MaxDeliver
    /\ delivered' = delivered + 1
    /\ queue' = Append(queue, [seq |-> delivered + 1, size |-> m.size,
                               dwSize |-> DeclaredSize(m),
                               dwID |-> m.dwID, id |-> m.id, val |-> m.val])
    /\ UNCHANGED <<clientVars, apiVars, semCalls, now, fdmData, fdmStats, fdmLife, fdmWorker,
                   semSubs, semLife, semWork, history, ret>>

(***************************************************************************)
(* The clock time.Now() reads; it never runs backwards.                    *)
(***************************************************************************)
Tick ==
    /\ now < MaxTime
    /\ now' = now + 1
    /\ UNCHANGED <<clientVars, apiVars, semCalls, hostVars, fdmData, fdmStats, fdmLife, fdmWorker,
                   semSubs, semLife, semWork, history, ret>>

(***************************************************************************)
(* A non-blocking send on a buffered error channel: select with default.   *)
(***************************************************************************)
\* A send that makes room by discarding the oldest error.
TrySend_DropOldest(ch, e) ==
    IF Len(ch) < ErrorChanCap THEN Append(ch, e) ELSE Append(Tail(ch), e)

\* A send on a channel without a bound.
TrySend_Unbounded(ch, e) == Append(ch, e)

TrySend(ch, e) == IF Len(ch) < ErrorChanCap THEN Append(ch, e) ELSE ch

(***************************************************************************)
(* FlightDataManager: the API calls. Each takes the write lock first, so   *)
(* it runs only while nobody else holds it.                                *)
(***************************************************************************)
NewVariable(name) == [Name |-> name, Value |-> 0, Updated |-> 0]
\* A request ID computed without the index: every variable gets the same one.
RequestIDFor_NoIndex(index) == 1000

\* DataDefinitionID and SimObjectDataRequestID are uint32; with at most MaxVars
\* variables the values stay far below 2^32, so no wrap-around is modelled.
DefineIDFor(index) == index + 1
RequestIDFor(index) == 1000 + (index * 1000)

\* AddVariable without its check of running.
AddGuard_NoCheck == ""

AddGuard ==
    IF fdmRunning THEN "cannot add variables while data manager is running" ELSE ""

AddVariable(name, hr) ==
    /\ fdmMutex = "free"
    /\ Len(variables) < MaxVars
    /\ IF AddGuard # ""
         THEN /\ ret' = StateError("AddVariable", AddGuard)
              /\ UNCHANGED fdmData
         ELSE LET index == Len(variables)
                  defineID == DefineIDFor(index)
                  requestID == RequestIDFor(index)
                  r == AddToDataDefinition(hr)
              IN IF r.err # ""
                   THEN /\ ret' = Wrapped("AddVariable", r)
                        /\ UNCHANGED fdmData
                   ELSE /\ variables' = Append(variables, NewVariable(name))
                        /\ definitions' = Append(definitions, defineID)
                        /\ requests' = Append(requests, requestID)
                        /\ ret' = Ok("AddVariable")
    /\ UNCHANGED <<clientVars, apiVars, semCalls, hostVars, now, fdmStats, fdmLife, fdmWorker,
                   semSubs, semLife, semWork, history>>

(***************************************************************************)
(* AddVariable at the grain of its native call: AddVariableEnter is the    *)
(* call up to the moment it is inside SimConnect_AddToDataDefinition       *)
(* (Lock() taken, running and isOpen checked), AddVariableReturn is the    *)
(* host answering and the rest of the call, with the deferred Unlock().    *)
(***************************************************************************)
AddVariableEnter(name) ==
    /\ fdmMutex = "free"
    /\ inNative = NoCall
    /\ Len(variables) < MaxVars
    /\ AddGuard = ""
    /\ isOpen
    /\ fdmMutex' = "AddVariable"
    /\ inNative' = [fn |-> "SimConnect_AddToDataDefinition", lock |-> "fdm.mutex",
                    arg |-> name]
    /\ UNCHANGED <<clientVars, rawData, writable, written, semCalls, hostVars, now, fdmData,
                   fdmStats, fdmRunning, fdmStopPc, fdmSpawned, armed, fdmWorker, semSubs,
                   semLife, semWork, history, ret>>

AddVariableReturn(hr) ==
    /\ inNative.fn = "SimConnect_AddToDataDefinition"
    /\ LET index == Len(variables)
           defineID == DefineIDFor(index)
           requestID == RequestIDFor(index)
       IN IF ~IsHRESULTSuccess(hr)
            THEN /\ ret' = Wrapped("AddVariable",
                                   NewSimConnectError("SimConnect_AddToDataDefinition", hr))
                 /\ UNCHANGED fdmData
            ELSE /\ variables' = Append(variables, NewVariable(inNative.arg))
                 /\ definitions' = Append(definitions, defineID)
                 /\ requests' = Append(requests, requestID)
                 /\ ret' = Ok("AddVariable")
    /\ fdmMutex' = "free"
    /\ inNative' = NoCall
    /\ UNCHANGED <<clientVars, rawData, writable, written, semCalls, hostVars, now, fdmStats,
                   fdmRunning, fdmStopPc, fdmSpawned, armed, fdmWorker, semSubs, semLife,
                   semWork, history>>

(***************************************************************************)
(* Writing variables. AddVariableWithWritable, SetVariable and             *)
(* SetVariableByIndex follow the specification: a variable is registered   *)
(* as AddVariable registers it, with its writable flag; a write looks the  *)
(* variable up under the lock, fails on "not found", "out of range" and    *)
(* "not writable", and else sends the value with                           *)
(* Client.SetFloat64OnSimObject for the variable's own definition.         *)
(* writable holds the positions (from 1) of the writable variables.        *)
(***************************************************************************)
AddVariableWithWritable(name, w, hr) ==
    /\ fdmMutex = "free"
    /\ Len(variables) < MaxVars
    /\ IF AddGuard # ""
         THEN /\ ret' = StateError("AddVariableWithWritable", AddGuard)
              /\ UNCHANGED <<fdmData, writable>>
         ELSE LET index == Len(variables)
                  defineID == DefineIDFor(index)
                  requestID == RequestIDFor(index)
                  r == AddToDataDefinition(hr)
              IN IF r.err # ""
                   THEN /\ ret' = Wrapped("AddVariableWithWritable", r)
                        /\ UNCHANGED <<fdmData, writable>>
                   ELSE /\ variables' = Append(variables, NewVariable(name))
                        /\ definitions' = Append(definitions, defineID)
                        /\ requests' = Append(requests, requestID)
                        /\ writable' = IF w THEN writable \cup {index + 1} ELSE writable
                        /\ ret' = Ok("AddVariableWithWritable")
    /\ UNCHANGED <<clientVars, rawData, written, inNative, semCalls, hostVars, now, fdmStats,
                   fdmLife, fdmWorker, semSubs, semLife, semWork, history>>

\* The position of the first variable of that name, 0 when there is none.
IndexOfName(name) ==
    IF \E i \in 1..Len(variables) : variables[i].Name = name
      THEN CHOOSE i \in 1..Len(variables) :
              /\ variables[i].Name = name
              /\ \A j \in 1..(i - 1) : variables[j].Name # name
      ELSE 0

(* What a write to the variable at position i returns and what the host    *)
(* has received afterwards.                                                *)
SetVariableResult(op, i, hr) ==
    IF i < 1 \/ i > Len(variables)
      THEN [ret |-> StateError(op, IF op = "SetVariable" THEN "variable not found"
                                                         ELSE "index out of range"),
            written |-> written]
    ELSE IF i \notin writable
      THEN [ret |-> StateError(op, "variable is not writable"), written |-> written]
    ELSE LET o == SetFloat64OnSimObject(definitions[i], hr)
         IN [ret |-> IF o.ret.err # "" THEN Wrapped(op, o.ret) ELSE Ok(op),
             written |-> o.written]

SetVariable(name, hr) ==
    /\ fdmMutex = "free"
    /\ LET o == SetVariableResult("SetVariable", IndexOfName(name), hr)
       IN /\ ret' = o.ret
          /\ written' = o.written
    /\ UNCHANGED <<clientVars, rawData, writable, inNative, semCalls, hostVars, now, fdmData,
                   fdmStats, fdmLife, fdmWorker, semSubs, semLife, semWork, history>>

SetVariableByIndex(i, hr) ==
    /\ fdmMutex = "free"
    /\ LET o == SetVariableResult("SetVariableByIndex", i, hr)
       IN /\ ret' = o.ret
          /\ written' = o.written
    /\ UNCHANGED <<clientVars, rawData, writable, inNative, semCalls, hostVars, now, fdmData,
                   fdmStats, fdmLife, fdmWorker, semSubs, semLife, semWork, history>>

(* Start arms the requests in order; failAt is the first request the host  *)
(* rejects (with status hr), or 0 when it accepts them all.                *)
\* Start without its check of running.
StartGuard_NoRunningCheck ==
    IF Len(variables) = 0 THEN "no variables added" ELSE ""

StartGuard ==
    IF fdmRunning THEN "data manager is already running"
    ELSE IF Len(variables) = 0 THEN "no variables added"
    ELSE ""

(* The request Start makes for the variable at position i (from 1):        *)
(* RequestDataOnSimObjectWithFlags(requestID, definitions[i], USER,        *)
(* SIMCONNECT_PERIOD_SECOND, SIMCONNECT_DATA_REQUEST_FLAG_CHANGED, 0,0,0). *)
ArmRequest(i) ==
    [requestID |-> requests[i], defineID |-> definitions[i],
     period |-> SIMCONNECT_PERIOD_SECOND, flags |-> SIMCONNECT_DATA_REQUEST_FLAG_CHANGED]

\* A Start that goes on to the next variable when a request fails.
ArmedBeforeFailure_SkipsFailed(failAt) == (1..Len(requests)) \ {failAt}

(* The positions whose request the host has accepted when the request at   *)
(* failAt fails: the loop ranges over the slice in order and returns at    *)
(* the first error.                                                        *)
ArmedBeforeFailure(failAt) == 1..(failAt - 1)

FdmStart(failAt, hr) ==
    /\ fdmMutex = "free"
    /\ failAt \in 0..Len(requests)
    /\ IF StartGuard # ""
         THEN /\ failAt = 0 /\ hr = S_OK
              /\ ret' = StateError("FdmStart", StartGuard)
              /\ UNCHANGED <<fdmRunning, fdmSpawned, armed, wpc>>
         ELSE IF ~isOpen
         THEN /\ failAt = 0 /\ hr = S_OK
              /\ ret' = Wrapped("FdmStart", RequestDataOnSimObjectWithFlags(hr))
              /\ UNCHANGED <<fdmRunning, fdmSpawned, armed, wpc>>
         ELSE IF failAt # 0
         THEN /\ hr # S_OK
              /\ armed' = armed \cup {ArmRequest(i) : i \in ArmedBeforeFailure(failAt)}
              /\ ret' = Wrapped("FdmStart", RequestDataOnSimObjectWithFlags(hr))
              /\ UNCHANGED <<fdmRunning, fdmSpawned, wpc>>
         ELSE /\ hr = S_OK
              /\ fdmSpawned < MaxStarts
              /\ armed' = armed \cup {ArmRequest(i) : i \in 1..Len(requests)}
              /\ fdmRunning' = TRUE
              /\ fdmSpawned' = fdmSpawned + 1
              /\ wpc' = "select"
              /\ ret' = Ok("FdmStart")
    /\ UNCHANGED <<clientVars, apiVars, semCalls, hostVars, now, fdmData, fdmStats, fdmMutex, fdmStopPc,
                   wmsg, semSubs, semLife, semWork, history>>

(* Stop takes the lock, clears running and then blocks, still holding the  *)
(* lock, until the worker receives from the unbuffered stopChan.           *)
\* Stop without its early return when the manager is not running.
FdmStopReturnsEarly_Never == FALSE

FdmStopReturnsEarly == ~fdmRunning

FdmStop ==
    /\ fdmMutex = "free"
    /\ IF FdmStopReturnsEarly
         THEN /\ ret' = Ok("FdmStop")
              /\ UNCHANGED <<fdmRunning, fdmMutex, fdmStopPc>>
         ELSE /\ fdmRunning' = FALSE
              /\ fdmMutex' = "stop"
              /\ fdmStopPc' = "send"
              /\ UNCHANGED ret
    /\ UNCHANGED <<clientVars, apiVars, semCalls, hostVars, now, fdmData, fdmStats, fdmSpawned, armed,
                   fdmWorker, semSubs, semLife, semWork, history>>

(***************************************************************************)
(* FlightDataManager: the dataCollectionLoop goroutine.                    *)
(*   "select"  at the select of dataCollectionLoop                         *)
(*   "collect" entering collectData                                        *)
(*   "lock"    in collectData, holding a data-sample, at fdm.mutex.Lock()  *)
(*   "write"   holding the lock, before the variable is written            *)
(*   "stats"   holding the lock, before dataCount and lastUpdate           *)
(*   "unlock"  holding the lock, at fdm.mutex.Unlock()                     *)
(*   "none"    no goroutine (never started, or returned)                   *)
(***************************************************************************)
FindVariableIndex(requestID) ==
    IF \E i \in 1..Len(requests) : requests[i] = requestID
      THEN CHOOSE i \in 1..Len(requests) :
               /\ requests[i] = requestID
               /\ \A j \in 1..(i - 1) : requests[j] # requestID
      ELSE 0

(* case <-fdm.stopChan: the rendezvous with the Stop() blocked in its send *)
WorkerReceiveStop ==
    /\ wpc = "select"
    /\ fdmStopPc = "send"
    /\ wpc' = "none"
    /\ fdmStopPc' = "idle"
    /\ fdmMutex' = "free"
    /\ ret' = Ok("FdmStop")
    /\ UNCHANGED <<clientVars, apiVars, semCalls, hostVars, now, fdmData, fdmStats, fdmRunning, fdmSpawned,
                   armed, wmsg, semSubs, semLife, semWork, history>>

WorkerDefault ==
    /\ wpc = "select"
    /\ fdmStopPc # "send"
    /\ wpc' = "collect"
    /\ UNCHANGED <<clientVars, apiVars, semCalls, hostVars, now, fdmData, fdmStats, fdmLife, wmsg,
                   semSubs, semLife, semWork, history, ret>>

\* A worker that ends when collectData returns early.
AfterCollect_Exit == "none"

\* collectData has returned: the loop sleeps and is at its select again.
AfterCollect == "select"

(* collectData up to the lock: the pull, the parse and the early returns. *)
(* After a return the loop sleeps and is back at its select.               *)
WorkerCollect(hr) ==
    /\ wpc = "collect"
    /\ LET got == GetRawDispatch(hr)
           data == got.data
           mt == ParseMessageType(data)
           sd == ParseSimObjectData(data)
       IN /\ queue' = got.rest
          /\ IF got.err # "" \/ data = NoMsg
               THEN /\ wpc' = AfterCollect
                    /\ UNCHANGED <<errorCount, fdmErrorChan, wmsg, lost>>
             ELSE IF mt.err # ""
               THEN /\ errorCount' = errorCount + 1
                    /\ fdmErrorChan' = TrySend(fdmErrorChan, mt.err)
                    /\ wpc' = AfterCollect
                    /\ UNCHANGED <<wmsg, lost>>
             ELSE IF mt.id # SIMCONNECT_RECV_ID_SIMOBJECT_DATA
               THEN /\ wpc' = AfterCollect
                    /\ lost' = IF IsEventKind(mt.id) /\ data.id \in DOMAIN callbacks
                                 THEN lost \cup {data.seq} ELSE lost
                    /\ UNCHANGED <<errorCount, fdmErrorChan, wmsg>>
             ELSE IF sd.err # ""
               THEN /\ errorCount' = errorCount + 1
                    /\ fdmErrorChan' = TrySend(fdmErrorChan, sd.err)
                    /\ wpc' = AfterCollect
                    /\ UNCHANGED <<wmsg, lost>>
             ELSE IF sd.len < SizeofFloat64
               THEN /\ wpc' = AfterCollect
                    /\ UNCHANGED <<errorCount, fdmErrorChan, wmsg, lost>>
             ELSE /\ wpc' = "lock"
                  /\ wmsg' = data
                  /\ UNCHANGED <<errorCount, fdmErrorChan, lost>>
    /\ UNCHANGED <<clientVars, apiVars, semCalls, delivered, now, fdmData, dataCount, lastUpdate, fdmLife,
                   semSubs, semLife, semWork, applied, ret>>

\* The write lock as the worker takes it, and the same step with the Lock() left out.
WorkerAcquire_NoLock == UNCHANGED fdmMutex

WorkerAcquire == fdmMutex = "free" /\ fdmMutex' = "worker"

(* fdm.mutex.Lock() and the search for the request ID *)
WorkerLock ==
    /\ wpc = "lock"
    /\ WorkerAcquire
    /\ LET variableIndex == FindVariableIndex(wmsg.id)
       IN wpc' = IF variableIndex >= 1 /\ variableIndex <= Len(variables)
                   THEN "write" ELSE "unlock"
    /\ UNCHANGED <<clientVars, apiVars, semCalls, hostVars, now, fdmData, fdmStats, fdmRunning, fdmStopPc,
                   fdmSpawned, armed, wmsg, semSubs, semLife, semWork, history, ret>>

(* variables[i].Value = value; variables[i].Updated = time.Now() *)
WorkerWriteVariable ==
    /\ wpc = "write"
    /\ variables' = [variables EXCEPT ![FindVariableIndex(wmsg.id)] =
                         [@ EXCEPT !.Value = wmsg.val, !.Updated = now]]
    /\ applied' = Append(applied, wmsg)
    /\ wpc' = "stats"
    /\ UNCHANGED <<clientVars, apiVars, semCalls, hostVars, now, definitions, requests, fdmStats, fdmLife, wmsg,
                   semSubs, semLife, semWork, lost, ret>>

\* The statistics updated without the time of the update.
WorkerWriteStats_NoTime ==
    /\ wpc = "stats"
    /\ dataCount' = dataCount + 1
    /\ wpc' = "unlock"
    /\ UNCHANGED <<clientVars, apiVars, semCalls, hostVars, now, fdmData, errorCount, lastUpdate,
                   fdmErrorChan, fdmLife, wmsg, semSubs, semLife, semWork, history, ret>>

(* fdm.dataCount++; fdm.lastUpdate = time.Now() *)
WorkerWriteStats ==
    /\ wpc = "stats"
    /\ dataCount' = dataCount + 1
    /\ lastUpdate' = now
    /\ wpc' = "unlock"
    /\ UNCHANGED <<clientVars, apiVars, semCalls, hostVars, now, fdmData, errorCount, fdmErrorChan, fdmLife, wmsg,
                   semSubs, semLife, semWork, history, ret>>

WorkerUnlock ==
    /\ wpc = "unlock"
    /\ fdmMutex' = "free"
    /\ wpc' = "select"
    /\ wmsg' = NoMsg
    /\ UNCHANGED <<clientVars, apiVars, semCalls, hostVars, now, fdmData, fdmStats, fdmRunning, fdmStopPc,
                   fdmSpawned, armed, semSubs, semLife, semWork, history, ret>>

(***************************************************************************)
(* SystemEventManager: the API calls, each under sem.mutex.                *)
(***************************************************************************)
\* delete(m, key) that leaves the entry in place.
Delete_Keep(m, key) == m

Delete(m, key) == [e \in DOMAIN m \ {key} |-> m[e]]
Store(m, key, v) == [e \in DOMAIN m \cup {key} |-> IF e = key THEN v ELSE m[e]]

\* sem.mutex.Lock() that does not wait for a reader.
SemCanLock_Always == TRUE

(* sem.mutex.Lock(): the write lock is taken only while no SetEventState   *)
(* call holds the read lock across its native call.                        *)
SemCanLock == inNative.lock # "sem.mutex.RLock"

\* SubscribeToEvent without its check of the client.
SubscribeGuard_NoCheck == ""

SubscribeGuard == IF ~isOpen THEN "SimConnect client is not open" ELSE ""

\* sem.nextID++ that leaves nextID as it was.
NextEventID_Same(id) == id

(* eventID := sem.nextID; sem.nextID++ (uint32: with at most MaxSubs       *)
(* subscriptions tried the value stays far below 2^32).                    *)
NextEventID(id) == id + 1

(* What one SubscribeToEvent call returns and leaves in the manager. *)
SubscribeResult(eventName, callback, hr) ==
    IF SubscribeGuard # ""
      THEN [ret |-> StateError("SubscribeToEvent", SubscribeGuard),
            callbacks |-> callbacks, eventNames |-> eventNames, nextID |-> nextID,
            issued |-> issued]
    ELSE LET eventID == nextID
             r == SubscribeToSystemEvent(hr)
         IN IF r.err # ""
              THEN [ret |-> Wrapped("SubscribeToEvent", r),
                    callbacks |-> callbacks, eventNames |-> eventNames,
                    nextID |-> NextEventID(nextID), issued |-> issued]
              ELSE [ret |-> Ok("SubscribeToEvent"),
                    callbacks |-> Store(callbacks, eventID, callback),
                    eventNames |-> Store(eventNames, eventID, eventName),
                    nextID |-> NextEventID(nextID),
                    issued |-> Append(issued, eventID)]

SubscribeToEvent(eventName, callback, hr) ==
    /\ SemCanLock
    /\ nextID < FirstEventID + MaxSubs
    /\ LET o == SubscribeResult(eventName, callback, hr)
       IN /\ callbacks' = o.callbacks
          /\ eventNames' = o.eventNames
          /\ nextID' = o.nextID
          /\ issued' = o.issued
          /\ ret' = o.ret
    /\ UNCHANGED <<clientVars, apiVars, semCalls, hostVars, now, fdmData, fdmStats, fdmLife,
                   fdmWorker, semLife, semWork, history>>

(* What one UnsubscribeFromEvent call returns and leaves in the manager. *)
UnsubscribeResult(eventID, hr) ==
    IF ~isOpen
      THEN [ret |-> StateError("UnsubscribeFromEvent", "SimConnect client is not open"),
            callbacks |-> callbacks, eventNames |-> eventNames]
    ELSE LET r == UnsubscribeFromSystemEvent(hr)
         IN IF r.err # ""
              THEN [ret |-> Wrapped("UnsubscribeFromEvent", r),
                    callbacks |-> callbacks, eventNames |-> eventNames]
              ELSE [ret |-> Ok("UnsubscribeFromEvent"),
                    callbacks |-> Delete(callbacks, eventID),
                    eventNames |-> Delete(eventNames, eventID)]

UnsubscribeFromEvent(eventID, hr) ==
    /\ SemCanLock
    /\ LET o == UnsubscribeResult(eventID, hr)
       IN /\ callbacks' = o.callbacks
          /\ eventNames' = o.eventNames
          /\ ret' = o.ret
    /\ UNCHANGED <<clientVars, apiVars, semCalls, hostVars, now, fdmData, fdmStats, fdmLife,
                   fdmWorker, nextID, issued, semLife, semWork, history>>

(***************************************************************************)
(* SetEventState at the grain of its native call. SetEventStateEnter is    *)
(* the call up to the moment it is inside SimConnect_SetSystemEventState:  *)
(* RLock() taken, the client found open (by the manager and again by       *)
(* Client.SetSystemEventState, read here in one step) and the event ID     *)
(* found in callbacks; a call that fails one of the checks returns there.  *)
(* SetEventStateReturn is the host answering, the error of the client      *)
(* returned as it is, and the deferred RUnlock().                          *)
(***************************************************************************)
SetEventStateGuard(eventID) ==
    IF ~isOpen THEN "SimConnect client is not open"
    ELSE IF eventID \notin DOMAIN callbacks THEN "event ID is not subscribed"
    ELSE ""

SetEventStateEnter(eventID) ==
    /\ inNative = NoCall
    /\ IF SetEventStateGuard(eventID) # ""
         THEN /\ ret' = StateError("SetEventState", SetEventStateGuard(eventID))
              /\ UNCHANGED inNative
         ELSE /\ inNative' = [fn |-> "SimConnect_SetSystemEventState",
                              lock |-> "sem.mutex.RLock", arg |-> eventID]
              /\ UNCHANGED ret
    /\ UNCHANGED <<clientVars, rawData, writable, written, semCalls, hostVars, now, fdmData,
                   fdmStats, fdmLife, fdmWorker, semSubs, semLife, semWork, history>>

SetEventStateReturn(hr) ==
    /\ inNative.fn = "SimConnect_SetSystemEventState"
    /\ ret' = IF IsHRESULTSuccess(hr) THEN Ok("SetEventState")
                                      ELSE NewSimConnectError("SetEventState", hr)
    /\ inNative' = NoCall
    /\ UNCHANGED <<clientVars, rawData, writable, written, semCalls, hostVars, now, fdmData,
                   fdmStats, fdmLife, fdmWorker, semSubs, semLife, semWork, history>>

(* SubscribeToCommonEvents ranges over its map in any order and calls      *)
(* SubscribeToEvent for each entry, taking the lock anew each time; it     *)
(* returns at the first error. scPending holds the entries not yet tried.  *)
SubscribeToCommonEvents(names) ==
    /\ scPending = {}
    /\ scBefore' = eventNames
    /\ IF names = {}
         THEN ret' = Ok("SubscribeToCommonEvents") /\ UNCHANGED scPending
         ELSE scPending' = names /\ UNCHANGED ret
    /\ UNCHANGED <<clientVars, apiVars, uaPending, hostVars, now, fdmData, fdmStats, fdmLife,
                   fdmWorker, semSubs, semLife, semWork, history>>

SubscribeToCommonEventsStep(eventName, hr) ==
    /\ eventName \in scPending
    /\ SemCanLock
    /\ nextID < FirstEventID + MaxSubs
    /\ LET o == SubscribeResult(eventName, "cb", hr)
           left == scPending \ {eventName}
       IN /\ callbacks' = o.callbacks
          /\ eventNames' = o.eventNames
          /\ nextID' = o.nextID
          /\ issued' = o.issued
          /\ IF o.ret.err # ""
               THEN /\ ret' = Wrapped("SubscribeToCommonEvents", o.ret)
                    /\ scPending' = {}
               ELSE /\ scPending' = left
                    /\ ret' = IF left = {} THEN Ok("SubscribeToCommonEvents") ELSE ret
    /\ UNCHANGED <<clientVars, apiVars, scBefore, uaPending, hostVars, now, fdmData, fdmStats,
                   fdmLife, fdmWorker, semLife, semWork, history>>

(* UnsubscribeAll copies the keys of callbacks under the lock, releases    *)
(* it, then calls UnsubscribeFromEvent for each key, returning at the      *)
(* first error. uaPending holds the keys not yet tried.                    *)
UnsubscribeAll ==
    /\ uaPending = {}
    /\ IF DOMAIN callbacks = {}
         THEN ret' = Ok("UnsubscribeAll") /\ UNCHANGED uaPending
         ELSE uaPending' = DOMAIN callbacks /\ UNCHANGED ret
    /\ UNCHANGED <<clientVars, apiVars, scPending, scBefore, hostVars, now, fdmData, fdmStats,
                   fdmLife, fdmWorker, semSubs, semLife, semWork, history>>

UnsubscribeAllStep(eventID, hr) ==
    /\ eventID \in uaPending
    /\ SemCanLock
    /\ LET o == UnsubscribeResult(eventID, hr)
           left == uaPending \ {eventID}
       IN /\ callbacks' = o.callbacks
          /\ eventNames' = o.eventNames
          /\ IF o.ret.err # ""
               THEN /\ ret' = Wrapped("UnsubscribeAll", o.ret)
                    /\ uaPending' = {}
               ELSE /\ uaPending' = left
                    /\ ret' = IF left = {} THEN Ok("UnsubscribeAll") ELSE ret
    /\ UNCHANGED <<clientVars, apiVars, scPending, scBefore, hostVars, now, fdmData, fdmStats,
                   fdmLife, fdmWorker, nextID, issued, semLife, semWork, history>>

GetSubscribedEvents == eventNames

\* Start without its check of running.
SemStartGuard_NoRunningCheck ==
    IF ~isOpen THEN "SimConnect client is not open" ELSE ""

SemStartGuard ==
    IF semRunning THEN "SystemEventManager is already running"
    ELSE IF ~isOpen THEN "SimConnect client is not open"
    ELSE ""

SemStart ==
    /\ SemCanLock
    /\ IF SemStartGuard # ""
         THEN /\ ret' = StateError("SemStart", SemStartGuard)
              /\ UNCHANGED semLife
         ELSE /\ Len(semLoops) < MaxStarts
              /\ semRunning' = TRUE
              /\ semStopChan' = semStopChan + 1
              /\ semLoops' = Append(semLoops, [pc |-> "select", seen |-> semStopChan + 1])
              /\ ret' = Ok("SemStart")
              /\ UNCHANGED semClosed
    /\ UNCHANGED <<clientVars, apiVars, semCalls, hostVars, now, fdmData, fdmStats, fdmLife, fdmWorker,
                   semSubs, semWork, history>>

SemStop ==
    /\ SemCanLock
    /\ IF ~semRunning
         THEN UNCHANGED semLife
         ELSE /\ semRunning' = FALSE
              /\ semClosed' = semClosed \cup {semStopChan}
              /\ UNCHANGED <<semStopChan, semLoops>>
    /\ ret' = Ok("SemStop")
    /\ UNCHANGED <<clientVars, apiVars, semCalls, hostVars, now, fdmData, fdmStats, fdmLife, fdmWorker,
                   semSubs, semWork, history>>

(***************************************************************************)
(* SystemEventManager: an eventLoop goroutine l.                           *)
(*   "select" at the select of eventLoop; "drain" inside the for loop of   *)
(*   processEventsFromRawDispatch; "done" returned.                        *)
(* The loop reads the field sem.stopChan without the lock each time it     *)
(* enters the select, while Start writes it: it sees the channel it saw    *)
(* last or the current one.                                                *)
(***************************************************************************)
StopChanRead(l) == {semLoops[l].seen, semStopChan}

LoopReceiveStop(l) ==
    /\ semLoops[l].pc = "select"
    /\ \E c \in StopChanRead(l) :
         /\ c \in semClosed
         /\ semLoops' = [semLoops EXCEPT ![l] = [pc |-> "done", seen |-> c]]
    /\ UNCHANGED <<clientVars, apiVars, semCalls, hostVars, now, fdmData, fdmStats, fdmLife, fdmWorker,
                   semSubs, semRunning, semStopChan, semClosed, semWork, history, ret>>

LoopTick(l) ==
    /\ semLoops[l].pc = "select"
    /\ \E c \in StopChanRead(l) :
         semLoops' = [semLoops EXCEPT ![l] = [pc |-> "drain", seen |-> c]]
    /\ UNCHANGED <<clientVars, apiVars, semCalls, hostVars, now, fdmData, fdmStats, fdmLife, fdmWorker,
                   semSubs, semRunning, semStopChan, semClosed, semWork, history, ret>>

(* select { case sem.errorChan <- err: default: }, with the history of    *)
(* the send tried.                                                         *)
SemPublish(e) ==
    /\ semErrorChan' = TrySend(semErrorChan, e)
    /\ semAttempt' = [n |-> 1 - semAttempt.n, err |-> e]

(* One iteration of the for loop of processEventsFromRawDispatch. An error *)
(* returned goes to the error channel in eventLoop.                        *)
LoopDrain(l, hr) ==
    /\ semLoops[l].pc = "drain"
    /\ LET got == GetRawDispatch(hr)
           data == got.data
           mt == ParseMessageType(data)
           ev == ParseEvent(data)
           back == [semLoops EXCEPT ![l].pc = "select"]
       IN /\ queue' = got.rest
          /\ IF got.err # ""
               THEN /\ SemPublish("error getting raw dispatch")
                    /\ semLoops' = back
                    /\ UNCHANGED <<cbSpawned, lost>>
             ELSE IF data = NoMsg
               THEN /\ semLoops' = back
                    /\ UNCHANGED <<semErrorChan, semAttempt, cbSpawned, lost>>
             ELSE IF mt.err # ""
               THEN /\ SemPublish("error parsing message type")
                    /\ semLoops' = back
                    /\ UNCHANGED <<cbSpawned, lost>>
             ELSE IF ~IsEventKind(mt.id)
               THEN /\ lost' = IF /\ mt.id = SIMCONNECT_RECV_ID_SIMOBJECT_DATA
                                   /\ FindVariableIndex(data.id) # 0
                                 THEN lost \cup {data.seq} ELSE lost
                    /\ UNCHANGED <<semErrorChan, semAttempt, cbSpawned, semLoops>>
             ELSE IF ev.err # ""
               THEN /\ SemPublish("error parsing event data")
                    /\ semLoops' = back
                    /\ UNCHANGED <<cbSpawned, lost>>
             ELSE /\ cbSpawned' =
                        IF ev.eventID \in DOMAIN callbacks /\ callbacks[ev.eventID] # "nil"
                          THEN cbSpawned \cup {[seq |-> data.seq, eventID |-> ev.eventID]}
                          ELSE cbSpawned
                  /\ UNCHANGED <<semErrorChan, semAttempt, semLoops, lost>>
    /\ UNCHANGED <<clientVars, apiVars, semCalls, delivered, now, fdmData, fdmStats, fdmLife,
                   fdmWorker, semSubs, semRunning, semStopChan, semClosed, cbRunning,
                   cbLog, cbEnded, applied, ret>>

(***************************************************************************)
(* A callback goroutine: it is scheduled and calls cb(event); the callback *)
(* then returns, panics, or does neither.                                  *)
(***************************************************************************)
CallbackBegin(c) ==
    /\ c \in cbSpawned
    /\ cbSpawned' = cbSpawned \ {c}
    /\ cbRunning' = cbRunning \cup {c}
    /\ cbLog' = Append(cbLog, c)
    /\ UNCHANGED <<clientVars, apiVars, semCalls, hostVars, now, fdmData, fdmStats, fdmLife,
                   fdmWorker, semSubs, semLife, semErrorChan, semAttempt, cbEnded,
                   history, ret>>

CallbackReturn(c) ==
    /\ c \in cbRunning
    /\ cbRunning' = cbRunning \ {c}
    /\ cbEnded' = cbEnded \cup {[seq |-> c.seq, how |-> "returned"]}
    /\ UNCHANGED <<clientVars, apiVars, semCalls, hostVars, now, fdmData, fdmStats, fdmLife,
                   fdmWorker, semSubs, semLife, semErrorChan, semAttempt, cbSpawned,
                   cbLog, history, ret>>

\* The deferred function without its send.
CallbackRecover_Silent == UNCHANGED <<semErrorChan, semAttempt>>

CallbackRecover == SemPublish("event callback panic")

CallbackPanic(c) ==
    /\ c \in cbRunning
    /\ cbRunning' = cbRunning \ {c}
    /\ cbEnded' = cbEnded \cup {[seq |-> c.seq, how |-> "panicked"]}
    /\ CallbackRecover
    /\ UNCHANGED <<clientVars, apiVars, semCalls, hostVars, now, fdmData, fdmStats, fdmLife,
                   fdmWorker, semSubs, semLife, cbSpawned, cbLog, history, ret>>

(***************************************************************************)
(* The state after NewClient, NewFlightDataManager, NewSystemEventManager. *)
(***************************************************************************)
Init ==
    /\ isOpen = FALSE
    /\ handle = 0
    /\ issued = << >>
    /\ rawData = NoMsg
    /\ writable = {}
    /\ written = << >>
    /\ inNative = NoCall
    /\ queue = << >>
    /\ delivered = 0
    /\ now = 0
    /\ variables = << >>
    /\ definitions = << >>
    /\ requests = << >>
    /\ fdmMutex = "free"
    /\ fdmRunning = FALSE
    /\ fdmStopPc = "idle"
    /\ fdmErrorChan = << >>
    /\ dataCount = 0
    /\ errorCount = 0
    /\ lastUpdate = 0
    /\ wpc = "none"
    /\ wmsg = NoMsg
    /\ fdmSpawned = 0
    /\ armed = {}
    /\ callbacks = << >>
    /\ eventNames = << >>
    /\ semRunning = FALSE
    /\ semStopChan = 0
    /\ semClosed = {}
    /\ semErrorChan = << >>
    /\ semAttempt = [n |-> 0, err |-> ""]
    /\ nextID = FirstEventID
    /\ semLoops = << >>
    /\ cbSpawned = {}
    /\ cbRunning = {}
    /\ cbLog = << >>
    /\ cbEnded = {}
    /\ scPending = {}
    /\ scBefore = << >>
    /\ uaPending = {}
    /\ applied = << >>
    /\ lost = {}
    /\ ret = Ok("New")

EventIDs == FirstEventID..(FirstEventID + MaxSubs - 1)

WorkerNext ==
    \/ WorkerReceiveStop
    \/ WorkerDefault
    \/ \E hr \in {S_OK, E_FAIL, STATUS_REMOTE_DISCONNECT} : WorkerCollect(hr)
    \/ WorkerLock
    \/ WorkerWriteVariable
    \/ WorkerWriteStats
    \/ WorkerUnlock

LoopNext ==
    \/ \E l \in 1..Len(semLoops) : LoopReceiveStop(l)
    \/ \E l \in 1..Len(semLoops) : LoopTick(l)
    \/ \E l \in 1..Len(semLoops), hr \in {S_OK, E_FAIL, STATUS_REMOTE_DISCONNECT} : LoopDrain(l, hr)
    \/ \E c \in cbSpawned : CallbackBegin(c)

(***************************************************************************)
(* SpecFdm: a FlightDataManager alone on its open client, started and      *)
(* stopped, while the host queues data-samples for registered and unknown  *)
(* request IDs and the clock advances.                                     *)
(***************************************************************************)
FdmMessages ==
    {DataSample(1000, v) : v \in Vals} \cup {DataSample(2000, 1), DataSample(99999, 1)}

NextFdm ==
    \/ Open(S_OK)
    \/ \E name \in Names : AddVariable(name, S_OK)
    \/ FdmStart(0, S_OK)
    \/ FdmStop
    \/ WorkerNext
    \/ \E m \in FdmMessages : HostDeliver(m)
    \/ Tick

SpecFdm == Init /\ [][NextFdm]_vars

(***************************************************************************)
(* Spec: both managers started on the same open client, the host queueing  *)
(* data-samples and events.                                                *)
(***************************************************************************)
DispatchMessages ==
    {DataSample(1000, 1), DataSample(99999, 1), BasicEvent(1000, 1), BasicEvent(99999, 1)}

Next ==
    \/ Open(S_OK)
    \/ AddVariable("Altitude", S_OK)
    \/ FdmStart(0, S_OK)
    \/ WorkerDefault
    \/ \E hr \in {S_OK, E_FAIL} : WorkerCollect(hr)
    \/ WorkerLock
    \/ WorkerWriteVariable
    \/ WorkerWriteStats
    \/ WorkerUnlock
    \/ SubscribeToEvent("Pause", "cb", S_OK)
    \/ SemStart
    \/ \E l \in 1..Len(semLoops) : LoopTick(l)
    \/ \E l \in 1..Len(semLoops), hr \in {S_OK, E_FAIL} : LoopDrain(l, hr)
    \/ \E c \in cbSpawned : CallbackBegin(c)
    \/ \E m \in DispatchMessages : HostDeliver(m)

Spec == Init /\ [][Next]_vars

(***************************************************************************)
(* SpecFdmLife: the life cycle of a FlightDataManager on a client that is  *)
(* opened and closed, with the host rejecting calls.                       *)
(***************************************************************************)
NextFdmLife ==
    \/ \E hr \in {S_OK, E_INVALIDARG} : Open(hr)
    \/ \E hr \in {S_OK, E_INVALIDARG} : Close(hr)
    \/ \E name \in Names, hr \in {S_OK, E_INVALIDARG} : AddVariable(name, hr)
    \/ \E failAt \in 0..MaxVars, hr \in {S_OK, E_INVALIDARG} : FdmStart(failAt, hr)
    \/ FdmStop
    \/ WorkerNext
    \/ HostDeliver(DataSample(1000, 1))

SpecFdmLife == Init /\ [][NextFdmLife]_vars

(***************************************************************************)
(* SpecLife: both managers started and stopped any number of times on the  *)
(* same client, with the host rejecting requests and queueing one         *)
(* data sample in all.                                                     *)
(***************************************************************************)
NextLife ==
    \/ Open(S_OK)
    \/ AddVariable("Altitude", S_OK)
    \/ \E failAt \in 0..MaxVars, hr \in {S_OK, E_INVALIDARG} : FdmStart(failAt, hr)
    \/ FdmStop
    \/ WorkerNext
    \/ SemStart
    \/ SemStop
    \/ \E l \in 1..Len(semLoops) : LoopReceiveStop(l)
    \/ \E l \in 1..Len(semLoops) : LoopTick(l)
    \/ \E l \in 1..Len(semLoops), hr \in {S_OK, E_FAIL} : LoopDrain(l, hr)
    \/ (delivered = 0 /\ HostDeliver(DataSample(1000, 1)))

SpecLife == Init /\ [][NextLife]_vars

(***************************************************************************)
(* SpecSem: a SystemEventManager alone on its open client: subscriptions   *)
(* made and removed while the loop runs, the host queueing events for      *)
(* subscribed and unknown IDs, callbacks returning, panicking or hanging.  *)
(***************************************************************************)
SemMessages == {BasicEvent(1000, 1), BasicEvent(1001, 1), BasicEvent(99999, 1)}

NextSem ==
    \/ Open(S_OK)
    \/ \E name \in EventNameSet : SubscribeToEvent(name, "cb", S_OK)
    \/ \E eventID \in EventIDs : UnsubscribeFromEvent(eventID, S_OK)
    \/ SemStart
    \/ \E l \in 1..Len(semLoops) : LoopTick(l)
    \/ \E l \in 1..Len(semLoops), hr \in {S_OK, E_FAIL} : LoopDrain(l, hr)
    \/ \E c \in cbSpawned : CallbackBegin(c)
    \/ \E c \in cbRunning : CallbackReturn(c)
    \/ \E c \in cbRunning : CallbackPanic(c)
    \/ \E m \in SemMessages : HostDeliver(m)

SpecSem == Init /\ [][NextSem]_vars

(***************************************************************************)
(* SpecSemFair: the same manager with a host that hands over a queued      *)
(* message whenever it is asked. The Go scheduler runs every goroutine     *)
(* that can run, so the loop's steps and the start of a spawned callback   *)
(* are weakly fair; nothing makes a user callback return.                  *)
(***************************************************************************)
NextSemFair ==
    \/ Open(S_OK)
    \/ SubscribeToEvent("Pause", "cb", S_OK)
    \/ SemStart
    \/ \E l \in 1..Len(semLoops) : LoopTick(l)
    \/ \E l \in 1..Len(semLoops) : LoopDrain(l, S_OK)
    \/ \E c \in cbSpawned : CallbackBegin(c)
    \/ \E c \in cbRunning : CallbackReturn(c)
    \/ \E c \in cbRunning : CallbackPanic(c)
    \/ \E m \in SemMessages : HostDeliver(m)

SpecSemFair ==
    /\ Init
    /\ [][NextSemFair]_vars
    /\ \A l \in 1..MaxStarts : WF_vars(l \in 1..Len(semLoops) /\ LoopTick(l))
    /\ \A l \in 1..MaxStarts : WF_vars(l \in 1..Len(semLoops) /\ LoopDrain(l, S_OK))
    /\ WF_vars(\E c \in cbSpawned : CallbackBegin(c))

(***************************************************************************)
(* SpecErr: both managers running while everything goes wrong at dispatch  *)
(* time: the raw pull fails, the host queues messages cut short and        *)
(* messages for unknown IDs, callbacks panic. Each manager is started      *)
(* once, with one variable and one subscription; the host queues messages  *)
(* once both have been started, and fails a pull of the event loop while   *)
(* that loop's error channel is still empty.                               *)
(***************************************************************************)
ShortHeader == [size |-> SizeofRecv - 1, dwID |-> 0, id |-> 0, val |-> 0]
ShortSample == [size |-> SizeofRecvSimObjectData - 1,
                dwID |-> SIMCONNECT_RECV_ID_SIMOBJECT_DATA, id |-> 1000, val |-> 0]
ShortEvent == [size |-> SizeofRecvEvent - 1, dwID |-> SIMCONNECT_RECV_ID_EVENT,
               id |-> 1000, val |-> 0]

ErrMessages ==
    {ShortHeader, ShortSample, ShortEvent, DataSample(99999, 1), BasicEvent(99999, 1),
     DataSample(1000, 1), BasicEvent(1000, 1)}

NextErr ==
    \/ Open(S_OK)
    \/ (variables = << >> /\ AddVariable("Altitude", S_OK))
    \/ (fdmSpawned = 0 /\ FdmStart(0, S_OK))
    \/ FdmStop
    \/ WorkerReceiveStop
    \/ WorkerDefault
    \/ \E hr \in {S_OK, STATUS_REMOTE_DISCONNECT} : WorkerCollect(hr)
    \/ WorkerLock
    \/ WorkerWriteVariable
    \/ WorkerWriteStats
    \/ WorkerUnlock
    \/ (DOMAIN callbacks = {} /\ SubscribeToEvent("Pause", "cb", S_OK))
    \/ (semLoops = << >> /\ SemStart)
    \/ SemStop
    \/ \E l \in 1..Len(semLoops) : LoopReceiveStop(l)
    \/ \E l \in 1..Len(semLoops) : LoopTick(l)
    \/ \E l \in 1..Len(semLoops) : LoopDrain(l, S_OK)
    \/ \E l \in 1..Len(semLoops) :
          semErrorChan = << >> /\ LoopDrain(l, STATUS_REMOTE_DISCONNECT)
    \/ \E c \in cbSpawned : CallbackBegin(c)
    \/ \E c \in cbRunning : CallbackPanic(c)
    \/ \E m \in ErrMessages : fdmSpawned > 0 /\ semLoops # << >> /\ HostDeliver(m)

SpecErr == Init /\ [][NextErr]_vars

(***************************************************************************)
(* SpecFlood: nobody reads GetErrors() while errors keep coming: the host  *)
(* fails pulls of the event loop without end, queues messages cut short,   *)
(* and the callback panics. Both managers run, each started once.          *)
(***************************************************************************)
FloodMessages == {ShortHeader, BasicEvent(1000, 1)}

NextFlood ==
    \/ Open(S_OK)
    \/ (variables = << >> /\ AddVariable("Altitude", S_OK))
    \/ (fdmSpawned = 0 /\ FdmStart(0, S_OK))
    \/ WorkerDefault
    \/ WorkerCollect(S_OK)
    \/ (DOMAIN callbacks = {} /\ SubscribeToEvent("Pause", "cb", S_OK))
    \/ (semLoops = << >> /\ SemStart)
    \/ \E l \in 1..Len(semLoops) : LoopTick(l)
    \/ \E l \in 1..Len(semLoops), hr \in {S_OK, STATUS_REMOTE_DISCONNECT} : LoopDrain(l, hr)
    \/ \E c \in cbSpawned : CallbackBegin(c)
    \/ \E c \in cbRunning : CallbackPanic(c)
    \/ \E m \in FloodMessages : fdmSpawned > 0 /\ semLoops # << >> /\ HostDeliver(m)

SpecFlood == Init /\ [][NextFlood]_vars

(***************************************************************************)
(* SpecSubs: one caller using the subscription API of a manager whose      *)
(* client is opened and closed and whose host rejects requests. The        *)
(* caller makes one call at a time: while SubscribeToCommonEvents or       *)
(* UnsubscribeAll is under way only the client is opened or closed.        *)
(***************************************************************************)
NoCallUnderWay == scPending = {} /\ uaPending = {}

NextSubs ==
    \/ Open(S_OK)
    \/ Close(S_OK)
    \/ \E name \in EventNameSet, hr \in {S_OK, E_INVALIDARG} :
          NoCallUnderWay /\ SubscribeToEvent(name, "cb", hr)
    \/ \E eventID \in EventIDs, hr \in {S_OK, E_INVALIDARG} :
          NoCallUnderWay /\ UnsubscribeFromEvent(eventID, hr)
    \/ \E names \in SUBSET EventNameSet :
          NoCallUnderWay /\ SubscribeToCommonEvents(names)
    \/ \E eventName \in scPending, hr \in {S_OK, E_INVALIDARG} :
          SubscribeToCommonEventsStep(eventName, hr)
    \/ (NoCallUnderWay /\ UnsubscribeAll)
    \/ \E eventID \in uaPending, hr \in {S_OK, E_INVALIDARG} :
          UnsubscribeAllStep(eventID, hr)

SpecSubs == Init /\ [][NextSubs]_vars

(***************************************************************************)
(* The Client alone, called by the application: the host answers every     *)
(* native call with any status, and queues messages of any size.           *)
(***************************************************************************)
MaxWrites == 2

HResults == {S_OK, E_FAIL, E_INVALIDARG, STATUS_REMOTE_DISCONNECT}

EmptyMessage == [size |-> 0, dwID |-> 0, id |-> 0, val |-> 0]

ClientMessages == {EmptyMessage, ShortHeader, DataSample(1000, 1)}

NextClient ==
    \/ \E hr \in HResults : Open(hr)
    \/ \E hr \in HResults : Close(hr)
    \/ \E op \in OutboundOps, hr \in HResults : ClientCall(op, hr)
    \/ \E defineID \in 1..MaxVars, hr \in HResults :
          Len(written) < MaxWrites /\ ClientSetFloat64(defineID, hr)
    \/ \E hr \in HResults : ClientGetRawDispatch(hr)
    \/ \E m \in ClientMessages : HostDeliver(m)

SpecClient == Init /\ [][NextClient]_vars

(***************************************************************************)
(* The message codec on buffers of every shape: shorter than the header,   *)
(* of the header's size and longer, each declaring a size below the        *)
(* header's, the header's, or its own. The data collection loop pulls and  *)
(* parses them.                                                            *)
(***************************************************************************)
CodecMessages ==
    {[size |-> n, dwSize |-> d, dwID |-> k, id |-> 1000, val |-> 1] :
        n \in {SizeofRecv - 1, SizeofRecv, SizeofRecvSimObjectData + SizeofFloat64},
        d \in {SizeofRecv - 1, SizeofRecv, SizeofRecvSimObjectData + SizeofFloat64},
        k \in {SIMCONNECT_RECV_ID_QUIT, SIMCONNECT_RECV_ID_SIMOBJECT_DATA}}

NextCodec ==
    \/ Open(S_OK)
    \/ (variables = << >> /\ AddVariable("Altitude", S_OK))
    \/ (fdmSpawned = 0 /\ FdmStart(0, S_OK))
    \/ WorkerDefault
    \/ WorkerCollect(S_OK)
    \/ WorkerLock
    \/ WorkerWriteVariable
    \/ WorkerWriteStats
    \/ WorkerUnlock
    \/ \E m \in CodecMessages : HostDeliver(m)

SpecCodec == Init /\ [][NextCodec]_vars

(***************************************************************************)
(* Both polling workers with a host that queues messages only between      *)
(* ticks: while the data collection loop is at its select (or asleep       *)
(* before it) and no event loop is inside its drain.                       *)
(***************************************************************************)
BetweenTicks ==
    /\ wpc \in {"none", "select"}
    /\ \A l \in 1..Len(semLoops) : semLoops[l].pc # "drain"

NextDrain ==
    \/ Open(S_OK)
    \/ (variables = << >> /\ AddVariable("Altitude", S_OK))
    \/ (fdmSpawned = 0 /\ FdmStart(0, S_OK))
    \/ WorkerDefault
    \/ WorkerCollect(S_OK)
    \/ WorkerLock
    \/ WorkerWriteVariable
    \/ WorkerWriteStats
    \/ WorkerUnlock
    \/ (DOMAIN callbacks = {} /\ SubscribeToEvent("Pause", "cb", S_OK))
    \/ (semLoops = << >> /\ SemStart)
    \/ \E l \in 1..Len(semLoops) : LoopTick(l)
    \/ \E l \in 1..Len(semLoops) : LoopDrain(l, S_OK)
    \/ \E c \in cbSpawned : CallbackBegin(c)
    \/ \E c \in cbRunning : CallbackReturn(c)
    \/ \E m \in {DataSample(1000, 1), BasicEvent(1000, 1)} : BetweenTicks /\ HostDeliver(m)

SpecDrain == Init /\ [][NextDrain]_vars

(***************************************************************************)
(* The data manager with AddVariable at the grain of its native call: the  *)
(* host may take any time to answer, while the application reads and       *)
(* starts the manager.                                                     *)
(***************************************************************************)
NextNative ==
    \/ Open(S_OK)
    \/ \E name \in Names : AddVariableEnter(name)
    \/ \E hr \in {S_OK, E_INVALIDARG} : AddVariableReturn(hr)
    \/ FdmStart(0, S_OK)
    \/ FdmStop
    \/ WorkerNext
    \/ \E v \in Vals : HostDeliver(DataSample(1000, v))
    \/ Tick

SpecNative == Init /\ [][NextNative]_vars

(***************************************************************************)
(* Variables registered read-only and writable under distinct names, and   *)
(* written by name and by position, on a client that may be closed.        *)
(***************************************************************************)
Registered == {variables[i].Name : i \in 1..Len(variables)}

NextWrite ==
    \/ Open(S_OK)
    \/ Close(S_OK)
    \/ \E name \in Names \ Registered : AddVariable(name, S_OK)
    \/ \E name \in Names \ Registered, w \in BOOLEAN :
          AddVariableWithWritable(name, w, S_OK)
    \/ FdmStart(0, S_OK)
    \/ FdmStop
    \/ WorkerReceiveStop
    \/ \E name \in Names \cup {"Unknown"}, hr \in {S_OK, E_INVALIDARG} :
          Len(written) < MaxWrites /\ SetVariable(name, hr)
    \/ \E i \in 0..(MaxVars + 1), hr \in {S_OK, E_INVALIDARG} :
          Len(written) < MaxWrites /\ SetVariableByIndex(i, hr)

SpecWrite == Init /\ [][NextWrite]_vars

(***************************************************************************)
(* The data manager started once, with a host that also sends             *)
(* data-samples whose payload is cut short.                                *)
(***************************************************************************)
ShortPayload(n) ==
    [size |-> SizeofRecvSimObjectData + n, dwID |-> SIMCONNECT_RECV_ID_SIMOBJECT_DATA,
     id |-> 1000, val |-> 1]

PayloadMessages ==
    {ShortPayload(0), ShortPayload(SizeofFloat64 - 1), DataSample(2000, 1)}
       \cup {DataSample(1000, v) : v \in Vals}

NextPayload ==
    \/ Open(S_OK)
    \/ \E name \in Names : AddVariable(name, S_OK)
    \/ (fdmSpawned = 0 /\ FdmStart(0, S_OK))
    \/ FdmStop
    \/ WorkerNext
    \/ \E m \in PayloadMessages : HostDeliver(m)
    \/ Tick

SpecPayload == Init /\ [][NextPayload]_vars

(***************************************************************************)
(* Both polling workers on a connection whose host announces that it       *)
(* quits.                                                                  *)
(***************************************************************************)
QuitMessage == [size |-> SizeofRecv, dwID |-> SIMCONNECT_RECV_ID_QUIT, id |-> 0, val |-> 0]

NextQuit ==
    \/ Open(S_OK)
    \/ (variables = << >> /\ AddVariable("Altitude", S_OK))
    \/ (fdmSpawned = 0 /\ FdmStart(0, S_OK))
    \/ WorkerDefault
    \/ WorkerCollect(S_OK)
    \/ WorkerLock
    \/ WorkerWriteVariable
    \/ WorkerWriteStats
    \/ WorkerUnlock
    \/ (DOMAIN callbacks = {} /\ SubscribeToEvent("Pause", "cb", S_OK))
    \/ (semLoops = << >> /\ SemStart)
    \/ \E l \in 1..Len(semLoops) : LoopTick(l)
    \/ \E l \in 1..Len(semLoops) : LoopDrain(l, S_OK)
    \/ \E m \in {QuitMessage, DataSample(1000, 1)} : HostDeliver(m)
    \/ \E op \in OutboundOps : ClientCall(op, S_OK)

SpecQuit == Init /\ [][NextQuit]_vars

(***************************************************************************)
(* The event manager started, stopped and started again while the host     *)
(* delivers events of one subscription.                                    *)
(***************************************************************************)
NextSemStop ==
    \/ Open(S_OK)
    \/ (DOMAIN callbacks = {} /\ SubscribeToEvent("Pause", "cb", S_OK))
    \/ SemStart
    \/ SemStop
    \/ \E l \in 1..Len(semLoops) : LoopReceiveStop(l)
    \/ \E l \in 1..Len(semLoops) : LoopTick(l)
    \/ \E l \in 1..Len(semLoops) : LoopDrain(l, S_OK)
    \/ \E c \in cbSpawned : CallbackBegin(c)
    \/ \E c \in cbRunning : CallbackReturn(c)
    \/ HostDeliver(BasicEvent(1000, 1))

SpecSemStop == Init /\ [][NextSemStop]_vars

(***************************************************************************)
(* Events switched on and off with SetEventState while the application     *)
(* subscribes, unsubscribes, opens and closes the client.                  *)
(***************************************************************************)
NextSetState ==
    \/ Open(S_OK)
    \/ Close(S_OK)
    \/ \E name \in EventNameSet : SubscribeToEvent(name, "cb", S_OK)
    \/ \E eventID \in EventIDs, hr \in {S_OK, E_INVALIDARG} :
          UnsubscribeFromEvent(eventID, hr)
    \/ \E eventID \in EventIDs : SetEventStateEnter(eventID)
    \/ \E hr \in {S_OK, E_INVALIDARG} : SetEventStateReturn(hr)

SpecSetState == Init /\ [][NextSetState]_vars

(***************************************************************************)
(* Steps of the API calls, as action formulas over one transition.         *)
(***************************************************************************)
AllHResults == {S_OK, E_FAIL, E_INVALIDARG, STATUS_REMOTE_DISCONNECT}
IsAddVariableStep == \E name \in Names, hr \in AllHResults : AddVariable(name, hr)
IsFdmStartStep == \E failAt \in 0..MaxVars, hr \in AllHResults : FdmStart(failAt, hr)
VarNames == [i \in 1..Len(variables) |-> variables[i].Name]
Registry == <<VarNames, definitions, requests>>

(***************************************************************************)
(* C6 (as stated): once Start() has succeeded, the variable, definition    *)
(* and request lists never change again, neither while the manager is     *)
(* running nor after Stop().                                               *)
(***************************************************************************)
C6_FrozenAfterFirstStart == [][fdmSpawned >= 1 => Registry' = Registry]_vars

(***************************************************************************)
(* C6 (amended): while running is true, AddVariable returns the "cannot    *)
(* add variables while data manager is running" error and the variable,    *)
(* definition and request lists do not change; once Stop() has cleared     *)
(* running, AddVariable is accepted again.                                 *)
(***************************************************************************)
C6_FrozenWhileRunning ==
    [][fdmRunning =>
          /\ Registry' = Registry
          /\ IsAddVariableStep =>
                ret' = StateError("AddVariable",
                                  "cannot add variables while data manager is running")]_vars

C6_Witness ==
    /\ fdmRunning
    /\ ret = StateError("AddVariable", "cannot add variables while data manager is running")

(***************************************************************************)
(* C7: Start() on a manager that is already running, or that has no        *)
(* variable, returns an error, arms no request, starts no worker and       *)
(* leaves running as it was.                                               *)
(***************************************************************************)
C7_StartRejected ==
    [][(IsFdmStartStep /\ (fdmRunning \/ Len(variables) = 0)) =>
          /\ ret'.op = "FdmStart"
          /\ ret'.err = (IF fdmRunning THEN "data manager is already running"
                                       ELSE "no variables added")
          /\ UNCHANGED <<armed, fdmSpawned, fdmRunning, wpc>>]_vars

C7_Witness ==
    /\ fdmRunning
    /\ wpc # "none"
    /\ ret = StateError("FdmStart", "data manager is already running")

(***************************************************************************)
(* C10: the registered variables have pairwise distinct Definition IDs and *)
(* pairwise distinct Request IDs; the i-th variable (0-based) has          *)
(* Definition ID i+1 and Request ID 1000+1000*i.                           *)
(***************************************************************************)
C10_UniqueIds ==
    /\ Len(definitions) = Len(variables)
    /\ Len(requests) = Len(variables)
    /\ \A i \in 1..Len(variables) :
          /\ definitions[i] = (i - 1) + 1
          /\ requests[i] = 1000 + 1000 * (i - 1)
    /\ \A i, j \in 1..Len(variables) :
          i # j => definitions[i] # definitions[j] /\ requests[i] # requests[j]

C10_Witness ==
    /\ Len(variables) = MaxVars
    /\ fdmSpawned >= 1
    /\ ~fdmRunning
    /\ ret = Ok("AddVariable")

(***************************************************************************)
(* C8: for each manager, running goes from false to true only in a         *)
(* successful Start() and from true to false only in a Stop(); every       *)
(* successful Start makes that transition and starts exactly one worker,   *)
(* every Stop on a running manager makes the opposite transition.          *)
(***************************************************************************)
FdmStartSucceeds == IsFdmStartStep /\ ret' = Ok("FdmStart")
SemStartSucceeds == SemStart /\ ret' = Ok("SemStart")

C8_RunningTransitions ==
    [][/\ (~fdmRunning /\ fdmRunning') => FdmStartSucceeds
       /\ (fdmRunning /\ ~fdmRunning') => FdmStop
       /\ FdmStartSucceeds =>
             /\ ~fdmRunning /\ fdmRunning'
             /\ fdmSpawned' = fdmSpawned + 1
             /\ wpc = "none" /\ wpc' = "select"
       /\ fdmSpawned' # fdmSpawned => FdmStartSucceeds
       /\ (FdmStop /\ fdmRunning) => ~fdmRunning'
       /\ (~semRunning /\ semRunning') => SemStartSucceeds
       /\ (semRunning /\ ~semRunning') => SemStop
       /\ SemStartSucceeds =>
             /\ ~semRunning /\ semRunning'
             /\ Len(semLoops') = Len(semLoops) + 1
       /\ Len(semLoops') # Len(semLoops) => SemStartSucceeds
       /\ (SemStop /\ semRunning) => ~semRunning']_vars

C8_Witness ==
    /\ fdmSpawned = 2 /\ fdmRunning
    /\ Len(semLoops) = 2 /\ semRunning

(***************************************************************************)
(* C9: Stop() on a manager that is not running returns at once: it does    *)
(* not send on or close the stop channel and changes nothing of the        *)
(* manager, so a second Stop() leaves the state of the first.              *)
(***************************************************************************)
C9_StopIdempotent ==
    [][/\ (~fdmRunning /\ fdmStopPc = "idle") => (fdmMutex = "free" /\ wpc = "none")
       /\ (FdmStop /\ ~fdmRunning) =>
             /\ UNCHANGED <<clientVars, apiVars, semCalls, hostVars, now, fdmData, fdmStats, fdmLife,
                            fdmWorker, semSubs, semLife, semWork, history>>
             /\ fdmStopPc' = "idle" /\ fdmMutex' = "free"
             /\ ret' = Ok("FdmStop")
       /\ (SemStop /\ ~semRunning) =>
             /\ UNCHANGED <<clientVars, apiVars, semCalls, hostVars, now, fdmData, fdmStats, fdmLife,
                            fdmWorker, semSubs, semLife, semWork, history>>
             /\ ret' = Ok("SemStop")]_vars

C9_Witness ==
    /\ ret = Ok("FdmStop")
    /\ fdmSpawned = 0 /\ ~fdmRunning /\ fdmStopPc = "idle"
    /\ Len(variables) >= 1
    /\ Len(semLoops) >= 1 /\ ~semRunning

(***************************************************************************)
(* What the readers see: GetStats, GetAllVariables and GetVariable take    *)
(* the read lock, which they get only while nobody holds the write lock.   *)
(***************************************************************************)
CanRLock == fdmMutex = "free"
GetStats == [dataCount |-> dataCount, errorCount |-> errorCount, lastUpdate |-> lastUpdate]
GetAllVariables == variables

AppliedTo(i) == SelectSeq(applied, LAMBDA m : FindVariableIndex(m.id) = i)
LastValue(i) == IF AppliedTo(i) = << >> THEN 0 ELSE AppliedTo(i)[Len(AppliedTo(i))].val

(***************************************************************************)
(* C1 (as stated): with both managers running on one client, no message    *)
(* is pulled and dropped by the manager that does not handle its kind: no  *)
(* data-sample of a registered variable is consumed by the event loop, no  *)
(* event of a subscribed ID by the data worker; and no message is applied  *)
(* or called back twice.                                                   *)
(***************************************************************************)
C1_FanOutLosesNothing ==
    /\ lost = {}
    /\ \A i, j \in 1..Len(applied) : i # j => applied[i].seq # applied[j].seq
    /\ \A i, j \in 1..Len(cbLog) : i # j => cbLog[i].seq # cbLog[j].seq

(***************************************************************************)
(* C2 (as stated): a Stop() that has taken the lock and is sending on the  *)
(* unbuffered stop channel is never stuck: the worker can always take its  *)
(* next step towards the receive.                                          *)
(***************************************************************************)
C2_StopNeverDeadlocks == (fdmStopPc = "send") => ENABLED WorkerNext

(***************************************************************************)
(* C3 (as stated): at most one background worker of a connection pulls     *)
(* from its raw dispatch queue.                                            *)
(***************************************************************************)
LiveDataWorkers == IF wpc = "none" THEN 0 ELSE 1
LiveEventLoops == Cardinality({l \in 1..Len(semLoops) : semLoops[l].pc # "done"})

C3_SinglePuller == LiveDataWorkers + LiveEventLoops <= 1

(***************************************************************************)
(* C4: a reader never sees a half-applied data-sample: whenever the read   *)
(* lock can be taken, dataCount is the number of samples applied, every    *)
(* variable holds the value of the last sample applied to it, and          *)
(* lastUpdate is not older than any variable's Updated.                    *)
(***************************************************************************)
C4_AtomicApply ==
    CanRLock =>
        /\ GetStats.dataCount = Len(applied)
        /\ \A i \in 1..Len(GetAllVariables) :
              /\ GetAllVariables[i].Value = LastValue(i)
              /\ GetAllVariables[i].Updated <= GetStats.lastUpdate

C4_Witness ==
    /\ CanRLock
    /\ dataCount = 2
    /\ variables[1].Value = 2
    /\ variables[1].Updated = 1
    /\ lastUpdate = 1

(***************************************************************************)
(* C5 (as stated): every data-sample with an unknown request ID that the   *)
(* worker has handled has raised errorCount by one and put one error on    *)
(* the error channel. (Under SpecFdm every message is a well-formed        *)
(* data-sample, so the samples handled and not applied are the unknown     *)
(* ones.)                                                                  *)
(***************************************************************************)
UnknownHandled == delivered - Len(queue) - Len(applied)

C5_UnknownRequestCounted ==
    (wpc \in {"none", "select", "collect"}) =>
        /\ errorCount = UnknownHandled
        /\ Len(fdmErrorChan) = UnknownHandled

(***************************************************************************)
(* C11: whenever a user callback starts executing for an event with ID e,  *)
(* e is in the subscription map at that moment, so no callback for e runs  *)
(* after UnsubscribeFromEvent(e) has returned successfully.                *)
(* The loop looks the callback up under the read lock, releases the lock   *)
(* and only then spawns the goroutine: an UnsubscribeFromEvent that runs   *)
(* before the goroutine is scheduled removes e first.                      *)
(***************************************************************************)
CallbacksBegun == cbRunning' \ cbRunning

C11_CallbackOnlyWhileSubscribed ==
    [][\A c \in CallbacksBegun : c.eventID \in DOMAIN callbacks]_vars

(***************************************************************************)
(* C12: of two event messages with the same subscribed event ID, the       *)
(* callback for the one the host delivered first begins first.             *)
(* Each callback is its own goroutine, and the scheduler orders them.      *)
(***************************************************************************)
C12_CallbacksInDeliveryOrder ==
    \A i, j \in 1..Len(cbLog) :
        (i < j /\ cbLog[i].eventID = cbLog[j].eventID) => cbLog[i].seq < cbLog[j].seq

(***************************************************************************)
(* C17: when the event loop pulls an event message whose event ID is not   *)
(* in the subscription map, no callback is spawned, the message is gone    *)
(* from the queue, and a diagnostic error is sent to the error channel     *)
(* (kept unless the channel is full).                                      *)
(* processEventsFromRawDispatch does nothing at all when exists is false.  *)
(***************************************************************************)
PullsUnknownEvent ==
    /\ queue # << >>
    /\ queue' = Tail(queue)
    /\ ParseMessageType(Head(queue)).err = ""
    /\ IsEventKind(ParseMessageType(Head(queue)).id)
    /\ ParseEvent(Head(queue)).err = ""
    /\ ParseEvent(Head(queue)).eventID \notin DOMAIN callbacks

C17_UnknownEventReported ==
    [][PullsUnknownEvent =>
          /\ cbSpawned' = cbSpawned
          /\ semAttempt' # semAttempt
          /\ semErrorChan' = TrySend(semErrorChan, semAttempt'.err)]_vars

(***************************************************************************)
(* C13: a user callback that never returns or that panics does not stall   *)
(* the event loop: while callbacks are inside cb(event) the loop still     *)
(* empties the queue and every callback it spawns still begins, and a      *)
(* panic is recovered in the callback's goroutine and sent to the error    *)
(* channel once, kept there unless the channel is full.                    *)
(***************************************************************************)
PanicsEnded == {c \in cbEnded' \ cbEnded : c.how = "panicked"}

C13_LoopNotStalled ==
    /\ (cbRunning # {} /\ queue # << >>) ~> (queue = << >>)
    /\ \A seq \in 1..MaxDeliver :
          (\E c \in cbSpawned : c.seq = seq) ~> (\E i \in 1..Len(cbLog) : cbLog[i].seq = seq)
    /\ [][PanicsEnded # {} =>
             /\ semAttempt' # semAttempt
             /\ semAttempt'.err = "event callback panic"
             /\ semErrorChan' = TrySend(semErrorChan, "event callback panic")]_vars

\* A callback hangs, a later event's callback has begun and ended in a panic
\* that is on the error channel, and the loop has emptied the queue.
C13_Witness ==
    /\ \E c \in cbRunning : \E i, j \in 1..Len(cbLog) :
          /\ cbLog[i] = c
          /\ i < j
          /\ [seq |-> cbLog[j].seq, how |-> "panicked"] \in cbEnded
    /\ semErrorChan = <<"event callback panic">>
    /\ queue = << >>
    /\ delivered = MaxDeliver

(***************************************************************************)
(* C14: no dispatch-time error terminates a polling worker. After a        *)
(* message cut short, a failed raw pull, an unknown ID or a callback       *)
(* panic, the data worker and the event loop are still running and can     *)
(* take their next step; a worker ends only by receiving the stop signal   *)
(* of a Stop() call.                                                       *)
(***************************************************************************)
WorkerExits == wpc # "none" /\ wpc' = "none"
LoopExits(l) == semLoops[l].pc # "done" /\ semLoops'[l].pc = "done"

C14_ErrorsNeverTerminate ==
    /\ []((wpc # "none" /\ fdmStopPc = "idle") => ENABLED WorkerNext)
    /\ [](\A l \in 1..Len(semLoops) :
             semLoops[l].pc # "done" => ENABLED (LoopTick(l) \/ LoopDrain(l, S_OK)))
    /\ [][/\ WorkerExits => fdmStopPc = "send"
          /\ \A l \in 1..Len(semLoops) : LoopExits(l) => semLoops'[l].seen \in semClosed]_vars

\* Both have met errors (a failed pull, then messages cut short), have
\* emptied the queue, and are still running.
C14_Witness ==
    /\ delivered = MaxDeliver
    /\ queue = << >>
    /\ errorCount = 1
    /\ Len(semErrorChan) = 2
    /\ semErrorChan[1] = "error getting raw dispatch"
    /\ wpc = "select"
    /\ fdmRunning
    /\ semRunning
    /\ \A l \in 1..Len(semLoops) : semLoops[l].pc = "select"

(***************************************************************************)
(* Sends tried on the error channels. The event manager's are recorded in  *)
(* semAttempt; the data manager counts every one of its own in errorCount. *)
(***************************************************************************)
SemPublishes == semAttempt' # semAttempt
FdmPublishes == errorCount' # errorCount
Full(ch) == Len(ch) = ErrorChanCap
Elems(ch) == {ch[i] : i \in 1..Len(ch)}

CommonEventsReturns == scPending # {} /\ scPending' = {}

C18_FailureRollsBack ==
    [][(CommonEventsReturns /\ ret'.err # "") => GetSubscribedEvents' = scBefore]_vars

(***************************************************************************)
(* C19: when UnsubscribeAll returns nil and no subscribe ran meanwhile,    *)
(* GetSubscribedEvents is the empty map and so is the callback map.        *)
(***************************************************************************)
UnsubscribeAllReturns ==
    \/ uaPending # {} /\ uaPending' = {}
    \/ NoCallUnderWay /\ uaPending' = {} /\ ret' # ret /\ ret'.op = "UnsubscribeAll"

C19_UnsubscribeAllEmpties ==
    [][(UnsubscribeAllReturns /\ ret'.err = "") =>
          /\ ret' = Ok("UnsubscribeAll")
          /\ DOMAIN GetSubscribedEvents' = {}
          /\ DOMAIN callbacks' = {}]_vars

\* UnsubscribeAll has returned nil after removing two subscriptions.
C19_Witness ==
    /\ isOpen
    /\ ret = Ok("UnsubscribeAll")
    /\ uaPending = {}
    /\ nextID = FirstEventID + 2
    /\ DOMAIN eventNames = {}
    /\ DOMAIN callbacks = {}

(***************************************************************************)
(* C20: SubscribeToEvent on a client that is not open returns the          *)
(* manager's own error whatever the host would have answered (the call     *)
(* never reaches the host) and leaves callbacks, eventNames and nextID as  *)
(* they were; a SubscribeToEvent whose native call fails leaves callbacks  *)
(* and eventNames as they were.                                            *)
(***************************************************************************)
IsSubscribeStep ==
    /\ NoCallUnderWay
    /\ scPending' = {}
    /\ uaPending' = {}
    /\ ret'.op = "SubscribeToEvent"
    /\ (ret' # ret \/ nextID' # nextID)

C20_SubscribeFailureLeavesMaps ==
    [][/\ (IsSubscribeStep /\ ~isOpen) =>
             /\ ret' = StateError("SubscribeToEvent", "SimConnect client is not open")
             /\ UNCHANGED <<callbacks, eventNames, nextID>>
       /\ (IsSubscribeStep /\ ret'.err # "") => UNCHANGED <<callbacks, eventNames>>
       /\ (IsSubscribeStep /\ ret'.err = "") =>
             /\ isOpen
             /\ DOMAIN callbacks' = DOMAIN callbacks \cup {nextID}
             /\ nextID' = nextID + 1]_vars

\* A subscription exists, the client has been closed, and SubscribeToEvent
\* has just failed on it.
C20_Witness ==
    /\ ~isOpen
    /\ ret = StateError("SubscribeToEvent", "SimConnect client is not open")
    /\ DOMAIN callbacks = {FirstEventID}
    /\ DOMAIN eventNames = {FirstEventID}
    /\ nextID = FirstEventID + 1


(***************************************************************************)
(* C21: the event IDs that successful SubscribeToEvent calls return are    *)
(* all at least 1000 and strictly increasing in call order, hence pairwise *)
(* distinct; every ID a call returns is the nextID of that moment, and     *)
(* nextID only grows, so an ID below it (returned earlier, consumed by a   *)
(* subscribe whose native call failed, or freed by UnsubscribeFromEvent)   *)
(* is never issued again.                                                  *)
(***************************************************************************)
C21_EventIDsNeverReused ==
    /\ [](\A i \in 1..Len(issued) :
             /\ issued[i] >= FirstEventID
             /\ issued[i] < nextID
             /\ \A j \in 1..Len(issued) : i < j => issued[i] < issued[j])
    /\ [](DOMAIN callbacks \subseteq {issued[i] : i \in 1..Len(issued)})
    /\ [][/\ nextID' >= nextID
          /\ \A i \in (Len(issued) + 1)..Len(issued') :
                issued'[i] >= nextID /\ issued'[i] < nextID']_vars

\* Two IDs were issued, the first of them freed before the second was.
C21_Witness ==
    /\ Len(issued) = 2
    /\ DOMAIN callbacks = {issued[2]}
    /\ nextID = FirstEventID + 2


(***************************************************************************)
(* C22: Open on an open client and Close on a client that is not open      *)
(* return the state error whatever the host would have answered, and       *)
(* leave isOpen and the handle as they were; after a Close that succeeded  *)
(* the client is not open and its handle is 0, so a further Close is       *)
(* rejected in the same way.                                               *)
(***************************************************************************)
C22_DoubleOpenCloseRejected ==
    /\ [][(isOpen /\ ret'.op = "Open" /\ ret' # ret)
            => /\ ret' = StateError("Open", "client is already open")
               /\ UNCHANGED <<isOpen, handle>>]_vars
    /\ [][(~isOpen /\ ret'.op = "Close" /\ ret' # ret)
            => /\ ret' = StateError("Close", "client is not open")
               /\ UNCHANGED <<isOpen, handle>>]_vars
    /\ [](ret = Ok("Close") => ~isOpen /\ handle = 0)
    /\ [](ret = Ok("Open") => isOpen /\ handle # 0)

\* A client that was open (the host queued a message for it), is closed,
\* and whose latest Close was rejected.
C22_Witness ==
    /\ delivered > 0
    /\ ~isOpen
    /\ handle = 0
    /\ ret = StateError("Close", "client is not open")

(***************************************************************************)
(* C23: while the client is not open every outbound operation returns the  *)
(* 'client is not open' error, which is not a SimConnectError, whatever    *)
(* status the host would answer, and nothing reaches the host: its queue   *)
(* is not pulled and it receives no write.                                 *)
(***************************************************************************)
NativeOps ==
    {"SimConnect_AddToDataDefinition", "SimConnect_RequestDataOnSimObject",
     "SimConnect_SetDataOnSimObject", "SimConnect_SubscribeToSystemEvent",
     "SimConnect_UnsubscribeFromSystemEvent", "SimConnect_SetSystemEventState",
     "SimConnect_RequestSystemState", "SimConnect_GetNextDispatch"}

C23_ClosedClientRejects ==
    /\ [](~isOpen =>
            \A hr \in HResults :
               /\ \A op \in OutboundOps :
                     /\ OutboundCall(op, hr).err = "client is not open"
                     /\ OutboundCall(op, hr).hresult = S_OK
               /\ \A defineID \in 1..MaxVars :
                     \A flags \in {SIMCONNECT_DATA_SET_FLAG_DEFAULT,
                                   SIMCONNECT_DATA_SET_FLAG_TAGGED} :
                        LET o == SetDataOnSimObject(defineID, flags, SizeofFloat64, hr)
                        IN o.ret.err = "client is not open" /\ o.written = written
               /\ LET g == GetRawDispatch(hr)
                  IN g.err = "client is not open" /\ g.data = NoMsg /\ g.rest = queue)
    /\ [][(~isOpen /\ ret'.op \in NativeOps /\ ret' # ret)
            => /\ ret'.err = "client is not open"
               /\ ret'.err # "SimConnectError"
               /\ UNCHANGED <<queue, written, isOpen>>]_vars

\* One write reached the host while the client was open; the write tried
\* after Close was rejected and did not.
C23_Witness ==
    /\ ~isOpen
    /\ Len(written) = 1
    /\ ret = StateError("SimConnect_SetDataOnSimObject", "client is not open")

(***************************************************************************)
(* C24: once a native call on the open client has returned the             *)
(* remote-disconnect status 0xC000013C the client is not open any more     *)
(* (so that, by C23, every later outbound operation is rejected).          *)
(***************************************************************************)
C24_DisconnectIsTerminal ==
    ret.hresult = STATUS_REMOTE_DISCONNECT => ~isOpen

(***************************************************************************)
(* C26: on an open client GetRawDispatch returns (nil, nil) when the host  *)
(* answers E_FAIL, or success with nothing or with a message of size 0; a  *)
(* SimConnectError for every other status that is not success; and else    *)
(* the next message of the queue, whole. The three outcomes 'not open',    *)
(* 'native error' and 'queue idle' differ in the error returned.           *)
(***************************************************************************)
C26_RawDispatchOutcomes ==
    /\ [](isOpen =>
            \A hr \in HResults :
               LET g == GetRawDispatch(hr)
                   idle == queue = << >> \/ Head(queue).size = 0
               IN /\ hr = E_FAIL => g.data = NoMsg /\ g.err = ""
                  /\ (hr = S_OK /\ idle) => g.data = NoMsg /\ g.err = ""
                  /\ hr \notin {S_OK, E_FAIL} => g.data = NoMsg /\ g.err = "SimConnectError"
                  /\ (hr = S_OK /\ ~idle) =>
                        /\ g.err = ""
                        /\ g.data = Head(queue)
                        /\ g.data.size = Head(queue).size
                        /\ g.rest = Tail(queue))
    /\ [][(ret'.op = "SimConnect_GetNextDispatch" /\ ret' # ret)
            => /\ ~isOpen <=> ret'.err = "client is not open"
               /\ ret'.err = "SimConnectError"
                     <=> (isOpen /\ ret'.hresult \in HResults \ {S_OK, E_FAIL})
               /\ ret'.err # "" => rawData' = NoMsg
               /\ rawData' # NoMsg => rawData' = Head(queue) /\ queue' = Tail(queue)]_vars

\* The application has pulled everything the host queued, and its latest
\* pull found the queue idle.
C26_Witness ==
    /\ isOpen
    /\ delivered = MaxDeliver
    /\ queue = << >>
    /\ rawData = NoMsg
    /\ ret = Ok("SimConnect_GetNextDispatch")


(***************************************************************************)
(* C25: when a polling worker (the data collection loop or an event loop)  *)
(* takes a quit message, kind 3, off the queue, the client is not open     *)
(* afterwards (so that, by C23, every later outbound operation is          *)
(* rejected).                                                              *)
(***************************************************************************)
QuitPulled ==
    \E i \in 1..Len(queue) :
       /\ queue[i].dwID = SIMCONNECT_RECV_ID_QUIT
       /\ \A j \in 1..Len(queue') : queue'[j].seq # queue[i].seq

C25_QuitIsTerminal == [][QuitPulled => ~isOpen']_vars


(***************************************************************************)
(* C27: the step in which the worker pulls a data-sample whose payload is  *)
(* shorter than 8 bytes changes no variable, not dataCount, lastUpdate or  *)
(* errorCount, publishes nothing on the error channel and leaves the       *)
(* worker without a sample to apply; so every sample ever applied had a    *)
(* payload of 8 bytes at least.                                            *)
(***************************************************************************)
ShortPayloadPulled ==
    /\ queue # << >>
    /\ queue' = Tail(queue)
    /\ Head(queue).dwID = SIMCONNECT_RECV_ID_SIMOBJECT_DATA
    /\ Head(queue).size >= SizeofRecvSimObjectData
    /\ Head(queue).size < SizeofRecvSimObjectData + SizeofFloat64

C27_ShortPayloadIgnored ==
    /\ [][ShortPayloadPulled
            => /\ UNCHANGED <<variables, dataCount, lastUpdate, errorCount, fdmErrorChan>>
               /\ wmsg' = NoMsg
               /\ wpc' # "lock"]_vars
    /\ [](\A i \in 1..Len(applied) :
             applied[i].size >= SizeofRecvSimObjectData + SizeofFloat64)

\* Every message the host queued was a short one: the running worker has
\* pulled them all and nothing has changed.
C27_Witness ==
    /\ fdmRunning
    /\ delivered = MaxDeliver
    /\ queue = << >>
    /\ wmsg = NoMsg
    /\ applied = << >>
    /\ dataCount = 0
    /\ errorCount = 0
    /\ fdmErrorChan = << >>
    /\ lastUpdate = 0
    /\ \A i \in 1..Len(variables) : variables[i].Value = 0 /\ variables[i].Updated = 0


(***************************************************************************)
(* C28: with a clock that does not run backwards, no step lowers a         *)
(* variable's Updated or dataCount, and whenever a reader can take the     *)
(* lock (GetVariable, GetStats) lastUpdate is at least every variable's    *)
(* Updated.                                                                *)
(***************************************************************************)
C28_TimestampsMonotonic ==
    /\ [][/\ \A i \in 1..Len(variables) : variables'[i].Updated >= variables[i].Updated
          /\ dataCount' >= dataCount
          /\ lastUpdate' >= lastUpdate]_vars
    /\ [](CanRLock => \A i \in 1..Len(variables) : GetStats.lastUpdate >= variables[i].Updated)

\* Two samples were applied to the same variable, the second after the
\* clock had advanced.
C28_Witness ==
    /\ CanRLock
    /\ Len(applied) = 2
    /\ applied[1].id = applied[2].id
    /\ dataCount = 2
    /\ now = MaxTime
    /\ \E i \in 1..Len(variables) : variables[i].Updated = MaxTime
    /\ lastUpdate = MaxTime


(***************************************************************************)
(* C29. The one native write a successful SetVariable makes for the        *)
(* variable at position i: its own definition, 8 bytes, non-tagged.        *)
(***************************************************************************)
WriteOf(i) ==
    [defineID |-> definitions[i], flags |-> SIMCONNECT_DATA_SET_FLAG_DEFAULT,
     arrayCount |-> 1, cbUnitSize |-> SizeofFloat64]

NotWritableRejected(i, hr) ==
    \A o \in {SetVariableResult("SetVariable", IndexOfName(variables[i].Name), hr),
              SetVariableResult("SetVariableByIndex", i, hr)} :
       o.ret.err = "variable is not writable" /\ o.written = written

WritableWrittenOnce(i, hr) ==
    \A o \in {SetVariableResult("SetVariable", IndexOfName(variables[i].Name), hr),
              SetVariableResult("SetVariableByIndex", i, hr)} :
       o.written = Append(written, WriteOf(i))

(* C29 as claimed: in every state, for every registered variable and       *)
(* whatever the host answers, SetVariable and SetVariableByIndex return    *)
(* 'not writable' without a native write if the variable is not writable,  *)
(* and make exactly one native write (own definition, 8 bytes,             *)
(* non-tagged) if it is writable.                                          *)
C29_WritableAlwaysWritten ==
    \A i \in 1..Len(variables), hr \in HResults :
       IF i \in writable THEN WritableWrittenOnce(i, hr) ELSE NotWritableRejected(i, hr)

(* C29 as amended: the same, with the writable case on an open client; on  *)
(* a client that is not open the write is rejected by the client and does  *)
(* not reach the host. No step makes more than one native write, and       *)
(* every write the host receives is for a writable variable's definition.  *)
C29_WritableWrittenWhenOpen ==
    /\ [](\A i \in 1..Len(variables), hr \in HResults :
             IF i \notin writable THEN NotWritableRejected(i, hr)
             ELSE IF isOpen THEN WritableWrittenOnce(i, hr)
             ELSE \A o \in {SetVariableResult("SetVariable", IndexOfName(variables[i].Name), hr),
                            SetVariableResult("SetVariableByIndex", i, hr)} :
                     /\ o.written = written
                     /\ o.ret.err = "wrapped: client is not open")
    /\ [][written' # written
            => /\ isOpen
               /\ \E i \in writable : written' = Append(written, WriteOf(i))]_vars

\* The writable variable was written once and the write to the read-only
\* one was then rejected.
C29_Witness ==
    /\ Len(variables) = 2
    /\ Cardinality(writable) = 1
    /\ \E i \in writable : written = <<WriteOf(i)>>
    /\ ret = StateError("SetVariable", "variable is not writable")


(***************************************************************************)
(* C30: while a native call made by a manager method is in progress, that  *)
(* method holds no manager mutex, so a reader (GetVariable, GetStats,      *)
(* IsRunning) can take the lock.                                           *)
(***************************************************************************)
C30_NoLockAcrossNativeCall ==
    inNative # NoCall => inNative.lock = "" /\ CanRLock


(***************************************************************************)
(* C31: every request the host holds is the request of a registered        *)
(* variable, with period once-per-second and flag changed-only. A Start    *)
(* that returns a native error leaves running false and starts no worker;  *)
(* it adds to the armed requests exactly those of the variables before     *)
(* some position k, in registration order, none from k on, and takes none  *)
(* away. A Start that succeeds arms them all.                              *)
(***************************************************************************)
StartReturns ==
    /\ ret'.op = "FdmStart"
    /\ ret' # ret \/ armed' # armed

C31_StartAbortsAtFirstFailure ==
    /\ [](\A a \in armed :
             /\ a.period = SIMCONNECT_PERIOD_SECOND
             /\ a.flags = SIMCONNECT_DATA_REQUEST_FLAG_CHANGED
             /\ \E i \in 1..Len(variables) :
                   a.requestID = requests[i] /\ a.defineID = definitions[i])
    /\ [][(StartReturns /\ ret'.err = "wrapped: SimConnectError")
            => /\ ret'.hresult # S_OK
               /\ ~fdmRunning /\ ~fdmRunning'
               /\ UNCHANGED <<fdmSpawned, wpc>>
               /\ \E k \in 1..Len(requests) :
                     armed' = armed \cup {ArmRequest(i) : i \in 1..(k - 1)}]_vars
    /\ [][(StartReturns /\ ret'.err = "")
            => /\ fdmRunning'
               /\ fdmSpawned' = fdmSpawned + 1
               /\ armed' = armed \cup {ArmRequest(i) : i \in 1..Len(requests)}]_vars

\* Two variables; the host accepted the first request and rejected the second.
C31_Witness ==
    /\ Len(variables) = 2
    /\ armed = {ArmRequest(1)}
    /\ ~fdmRunning
    /\ fdmSpawned = 0
    /\ ret = Wrapped("FdmStart", NewSimConnectError("SimConnect_RequestDataOnSimObject", E_INVALIDARG))


(***************************************************************************)
(* C32: with no message arriving during a tick, a polling worker ends its  *)
(* tick (the data collection loop is back at its select, an event loop is  *)
(* back at its select) only with the queue empty: everything queued when   *)
(* the tick began has been pulled.                                         *)
(***************************************************************************)
C32_TickDrainsQueue ==
    /\ [][(wpc \notin {"none", "select"} /\ wpc' = "select") => queue' = << >>]_vars
    /\ [][\A l \in 1..Len(semLoops) :
             (semLoops[l].pc = "drain" /\ semLoops'[l].pc = "select")
                => queue' = << >>]_vars


(***************************************************************************)
(* C33: of every message the host has queued, ParseMessageType rejects the *)
(* buffer if it is shorter than the 12-byte header or if the size its      *)
(* header declares is below the header's size, and returns the header's    *)
(* kind code, without error, for every other buffer.                       *)
(***************************************************************************)
C33_CodecRejectsMalformed ==
    \A i \in 1..Len(queue) :
       LET data == queue[i]
           r == ParseMessageType(data)
       IN IF data.size < SizeofRecv \/ data.dwSize < SizeofRecv
            THEN r.err # ""
            ELSE r.err = "" /\ r.id = data.dwID


(***************************************************************************)
(* C34: no two registered variables have the same name, so the variable    *)
(* GetVariable(name) returns is the only one of that name.                 *)
(***************************************************************************)
C34_NamesUnique ==
    \A i, j \in 1..Len(variables) :
       i # j => variables[i].Name # variables[j].Name


(***************************************************************************)
(* The event loop l makes a GetRawDispatch call in this step: it is inside *)
(* processEventsFromRawDispatch and takes a message off the queue or is    *)
(* told that there is none.                                                *)
(***************************************************************************)
LoopPullsMessage(l) == semLoops[l].pc = "drain" /\ Len(queue') < Len(queue)
LoopPulls(l) == LoopPullsMessage(l) \/ (semLoops[l].pc = "drain" /\ semLoops'[l].pc = "select")

(***************************************************************************)
(* C35: once Stop() has returned on a running manager the event loop has   *)
(* acknowledged the stop: while the manager is stopped no event loop makes *)
(* a GetRawDispatch call and no callback goroutine is started.             *)
(***************************************************************************)
C35_StopWaitsForLoop ==
    [][~semRunning =>
          /\ \A l \in 1..Len(semLoops) : ~LoopPulls(l)
          /\ cbSpawned' \subseteq cbSpawned]_vars

(***************************************************************************)
(* C37: the stop signal is checked between two consecutive pulls of the    *)
(* inner loop: an event loop that pulls a message while its stop channel   *)
(* is closed does not go on to the next pull.                              *)
(***************************************************************************)
C37_StopCheckedBetweenPulls ==
    [][\A l \in 1..Len(semLoops) :
          (LoopPullsMessage(l) /\ semLoops[l].seen \in semClosed) => semLoops'[l].pc # "drain"]_vars

(***************************************************************************)
(* C38: a loop of an earlier Start() that has gone through its select      *)
(* since the manager was started again has returned: it is never alive     *)
(* next to the loop of the later Start().                                  *)
(***************************************************************************)
C38_OneLoopAlive ==
    \A l \in 1..Len(semLoops) :
        (l < Len(semLoops) /\ semLoops[l].seen = semStopChan) => semLoops[l].pc = "done"


(***************************************************************************)
(* C36: every write to the shared state of the FlightDataManager happens   *)
(* under its write lock: the worker changes the counters, the time of the  *)
(* last update and the variables only while it holds the lock, and a call  *)
(* changes the variables or the running flag only while the worker does    *)
(* not hold it.                                                            *)
(***************************************************************************)
C36_WritesUnderLock ==
    [][/\ (errorCount' # errorCount \/ dataCount' # dataCount \/ lastUpdate' # lastUpdate)
             => fdmMutex = "worker"
       /\ (variables' # variables \/ fdmRunning' # fdmRunning)
             => IF wpc = "write" THEN fdmMutex = "worker" ELSE fdmMutex # "worker"]_vars


(***************************************************************************)
(* C39: an Open or a Close whose native call the host answers with a       *)
(* non-success status returns a SimConnectError that names the operation   *)
(* and carries that status, and leaves the connection as it was: after a   *)
(* failed Open the client is not open, after a failed Close it is open and *)
(* still has its handle, so that Close can be tried again.                 *)
(***************************************************************************)
C39_FailedOpenCloseKeepState ==
    /\ [][(~isOpen /\ ret'.op = "Open" /\ ret' # ret) =>
             \/ ret' = Ok("Open") /\ isOpen'
             \/ /\ \E hr \in HResults :
                      ~IsHRESULTSuccess(hr) /\ ret' = NewSimConnectError("Open", hr)
                /\ ~isOpen']_vars
    /\ [][(isOpen /\ ret'.op = "Close" /\ ret' # ret) =>
             \/ ret' = Ok("Close") /\ ~isOpen'
             \/ /\ \E hr \in HResults :
                      ~IsHRESULTSuccess(hr) /\ ret' = NewSimConnectError("Close", hr)
                /\ UNCHANGED <<isOpen, handle>>]_vars
    /\ []((ret.op = "Open" /\ ret.err = "SimConnectError") => ~isOpen)
    /\ []((ret.op = "Close" /\ ret.err = "SimConnectError") =>
             /\ isOpen /\ handle \in Handles
             /\ \A hr \in HResults : ENABLED Close(hr))

\* The host refused to close a client it had queued a message for: the
\* client is still open and has its handle.
C39_Witness ==
    /\ isOpen /\ handle \in Handles
    /\ ret = NewSimConnectError("Close", E_INVALIDARG)
    /\ delivered > 0


(***************************************************************************)
(* C40: SetEventState(e) on a client that is not open, or for an e that is *)
(* not in the subscription map, returns an error without entering the      *)
(* native call; the native call is entered only for a subscribed e on an   *)
(* open client; and from then until the call returns e stays subscribed:   *)
(* no UnsubscribeFromEvent gets the lock in between.                       *)
(***************************************************************************)
InSetSystemEventState == inNative.fn = "SimConnect_SetSystemEventState"

C40_SetEventStateChecked ==
    /\ [](inNative = NoCall =>
            \A e \in EventIDs :
               (~isOpen \/ e \notin DOMAIN callbacks) =>
                  /\ ENABLED SetEventStateEnter(e)
                  /\ ~ENABLED (SetEventStateEnter(e) /\ (inNative' # NoCall \/ ret'.err = "")))
    /\ [][(~InSetSystemEventState /\ InSetSystemEventState') =>
             /\ isOpen
             /\ inNative'.arg \in DOMAIN callbacks
             /\ ret' = ret]_vars
    /\ [](InSetSystemEventState => inNative.arg \in DOMAIN callbacks)
    /\ [][InSetSystemEventState => UNCHANGED <<callbacks, eventNames>>]_vars

\* SetEventState is inside the native call for the second of two
\* subscribed events.
C40_Witness ==
    /\ InSetSystemEventState
    /\ inNative.arg = FirstEventID + 1
    /\ DOMAIN callbacks = {FirstEventID, FirstEventID + 1}

====
